---- MODULE Spec2Model ----
(***************************************************************************)
(* Phantom-metrics engine of the MRI DICOM analysis scripts:               *)
(*   backend/torso.py        ("torso")                                     *)
(*   backend/head_neck.py    ("hn")                                        *)
(*   desktop_app/head_neck.py ("desktop")                                  *)
(* Strings are tuples of one-character strings, so that lower(), split(),  *)
(* strip() and the substring test `in` are computed, not assumed.          *)
(* Floating-point values are integers (pixel statistics) or tenths (the    *)
(* values round(x, 1) returns); a quotient is taken exactly, so round() is *)
(* round-half-to-even on the exact quotient.                               *)
(***************************************************************************)
EXTENDS Integers, Sequences, FiniteSets, TLC

VARIABLES
    variant,            \* which script runs: "torso", "hn" or "desktop"
    pc,                 \* position of the running function
    files,              \* the list handed to classify_files (paths)
    idx,                \* number of files classify_files has consumed
    combined,           \* dict combined       (insertion-ordered)
    individual,         \* dict individual     (insertion-ordered)
    combined_results,   \* list combined_results / results_comb
    element_results,    \* list element_results / results_ind
    call,               \* a direct call of a metric function: its arguments
    ret                 \* ... and what it returned or raised

vars == <<variant, pc, files, idx, combined, individual,
          combined_results, element_results, call, ret>>

Variants == {"torso", "hn", "desktop"}

----------------------------------------------------------------------------
(* Bounds of the model *)

MaxMean == 8       \* largest signal mean / pixel value of a direct call
MaxStd == 3        \* largest noise standard deviation of a direct call
MaxFiles == 3      \* longest list handed to classify_files on its own
MaxFolder == 4     \* most files of a processed folder
MaxDim == 24       \* largest height / width of an image
MaxSide == 64      \* height and width of the images given to the locator alone
MaxScans == 3      \* most entries of a directory given to a folder scan

----------------------------------------------------------------------------
(* Python values *)

None == [kind |-> "None"]
Num(x10) == [kind |-> "num", x10 |-> x10]       \* a finite float, in tenths
Inf == [kind |-> "inf"]
NegInf == [kind |-> "-inf"]
NaN == [kind |-> "nan"]
Raised(e) == [kind |-> "raise", exc |-> e]

Abs(x) == IF x < 0 THEN 0 - x ELSE x

\* round(n / d, 1) in tenths: round-half-to-even of 10 * n / d, d # 0
Round1(n, d) ==
    LET nn == IF d < 0 THEN 0 - 10 * n ELSE 10 * n
        dd == Abs(d)
        q == nn \div dd
        r == nn % dd
    IN  IF 2 * r < dd THEN q
        ELSE IF 2 * r > dd THEN q + 1
        ELSE IF q % 2 = 0 THEN q ELSE q + 1

----------------------------------------------------------------------------
(* Metrics engine *)

\* backend/head_neck.py: SNR_MULTIPLIER = 0.7, in hundredths
HN_SNR_MULTIPLIER == 70
\* desktop_app/head_neck.py: SNR_MULTIPLIER = 0.7, in hundredths
DESKTOP_SNR_MULTIPLIER == 70
\* backend/torso.py compute_snr: multiplier = 0.66 / 0.7, in hundredths
TORSO_MULT_INDIVIDUAL == 66
TORSO_MULT_COMBINED == 70

\* float / float with a zero divisor: Python floats raise, a numpy float64
\* divisor yields inf, -inf or nan (with a RuntimeWarning only)
DivideByZero(numerator, std_type) ==
    IF std_type = "float" THEN Raised("ZeroDivisionError")
    ELSE IF numerator > 0 THEN Inf
    ELSE IF numerator < 0 THEN NegInf
    ELSE NaN

torso_multiplier_mutant(is_individual) == TORSO_MULT_COMBINED

torso_multiplier(is_individual) ==
    IF is_individual THEN TORSO_MULT_INDIVIDUAL ELSE TORSO_MULT_COMBINED

torso_compute_snr(signal_mean, noise_std, std_type, is_individual) ==
    LET multiplier == torso_multiplier(is_individual)
    IN  IF noise_std = 0
        THEN DivideByZero(multiplier * signal_mean, std_type)
        ELSE Num(Round1(multiplier * signal_mean, 100 * noise_std))

hn_compute_snr(signal_mean, noise_std) ==
    IF noise_std = 0 THEN Num(0)
    ELSE Num(Round1(HN_SNR_MULTIPLIER * signal_mean, 100 * noise_std))

desktop_compute_snr(sig_mean, noise_std) ==
    IF noise_std # 0
    THEN Num(Round1(DESKTOP_SNR_MULTIPLIER * sig_mean, 100 * noise_std))
    ELSE Num(0)

compute_snr(v, signal_mean, noise_std, std_type, is_individual) ==
    CASE v = "torso" ->
            torso_compute_snr(signal_mean, noise_std, std_type, is_individual)
      [] v = "hn" -> hn_compute_snr(signal_mean, noise_std)
      [] v = "desktop" -> desktop_compute_snr(signal_mean, noise_std)

hn_compute_uniformity_mutant(signal_max, signal_min) ==
    LET denom == signal_max + signal_min
    IN  IF denom = 0 THEN Num(0)
        ELSE Num(Round1(100 * (signal_max - signal_min), denom))

torso_compute_uniformity(signal_max, signal_min) ==
    IF (signal_max + signal_min) = 0 THEN Num(0)
    ELSE Num(Round1(100 * ((signal_max + signal_min) - (signal_max - signal_min)),
                    signal_max + signal_min))

hn_compute_uniformity(signal_max, signal_min) ==
    LET denom == signal_max + signal_min
    IN  IF denom = 0 THEN Num(0)
        ELSE Num(Round1(100 * (denom - (signal_max - signal_min)), denom))

\* desktop_app/head_neck.py computes uni_pct inline in process_hn_folder
desktop_uni_pct(mx, mn) ==
    IF (mx + mn) # 0
    THEN Num(Round1(100 * ((mx + mn) - (mx - mn)), mx + mn))
    ELSE Num(0)

compute_uniformity(v, signal_max, signal_min) ==
    CASE v = "torso" -> torso_compute_uniformity(signal_max, signal_min)
      [] v = "hn" -> hn_compute_uniformity(signal_max, signal_min)
      [] v = "desktop" -> desktop_uni_pct(signal_max, signal_min)

----------------------------------------------------------------------------
(* Direct calls of the metric functions *)

NoCall == [fn |-> "none"]

SignalValues == (0 - 2)..MaxMean
NoiseStds == 0..MaxStd

InitMetrics ==
    /\ variant \in Variants
    /\ pc = "metrics"
    /\ files = <<>>
    /\ idx = 0
    /\ combined = <<>>
    /\ individual = <<>>
    /\ combined_results = <<>>
    /\ element_results = <<>>
    /\ call = NoCall
    /\ ret = None

CallComputeSnr ==
    /\ pc = "metrics"
    /\ \E signal_mean \in SignalValues, noise_std \in NoiseStds,
          std_type \in {"float", "float64"}, is_individual \in BOOLEAN :
          /\ call' = [fn |-> "compute_snr", signal_mean |-> signal_mean,
                      noise_std |-> noise_std, std_type |-> std_type,
                      is_individual |-> is_individual]
          /\ ret' = compute_snr(variant, signal_mean, noise_std, std_type,
                                is_individual)
    /\ UNCHANGED <<variant, pc, files, idx, combined, individual,
                   combined_results, element_results>>

CallComputeUniformity ==
    /\ pc = "metrics"
    /\ \E signal_max \in SignalValues, signal_min \in SignalValues :
          /\ signal_min <= signal_max
          /\ call' = [fn |-> "compute_uniformity", signal_max |-> signal_max,
                      signal_min |-> signal_min]
          /\ ret' = compute_uniformity(variant, signal_max, signal_min)
    /\ UNCHANGED <<variant, pc, files, idx, combined, individual,
                   combined_results, element_results>>

NextMetrics == CallComputeSnr \/ CallComputeUniformity

SpecMetrics == InitMetrics /\ [][NextMetrics]_vars

----------------------------------------------------------------------------
(* Python strings: tuples of one-character strings *)

UpperChars == <<"A","B","C","D","E","F","G","H","I","J","K","L","M",
                "N","O","P","Q","R","S","T","U","V","W","X","Y","Z">>
LowerChars == <<"a","b","c","d","e","f","g","h","i","j","k","l","m",
                "n","o","p","q","r","s","t","u","v","w","x","y","z">>

CharLower(c) ==
    IF \E i \in DOMAIN UpperChars : UpperChars[i] = c
    THEN LowerChars[CHOOSE i \in DOMAIN UpperChars : UpperChars[i] = c]
    ELSE c

CharUpper(c) ==
    IF \E i \in DOMAIN LowerChars : LowerChars[i] = c
    THEN UpperChars[CHOOSE i \in DOMAIN LowerChars : LowerChars[i] = c]
    ELSE c

\* s.lower(), s.upper()
StrLower(s) == [i \in 1..Len(s) |-> CharLower(s[i])]
StrUpper(s) == [i \in 1..Len(s) |-> CharUpper(s[i])]

\* sub in s
StrIn(sub, s) ==
    \E i \in 1..(Len(s) - Len(sub) + 1) : SubSeq(s, i, i + Len(sub) - 1) = sub

\* s.strip()
StrStrip(s) ==
    LET inked == {i \in 1..Len(s) : s[i] # " "}
    IN  IF inked = {} THEN <<>>
        ELSE SubSeq(s, CHOOSE i \in inked : \A j \in inked : i <= j,
                       CHOOSE i \in inked : \A j \in inked : j <= i)

\* s.split(sep), sep one character
RECURSIVE StrSplit(_, _)
StrSplit(s, sep) ==
    LET at == {i \in 1..Len(s) : s[i] = sep}
    IN  IF at = {} THEN <<s>>
        ELSE LET i == CHOOSE k \in at : \A j \in at : k <= j
             IN  <<SubSeq(s, 1, i - 1)>> \o StrSplit(SubSeq(s, i + 1, Len(s)), sep)

\* [c.strip() for c in coil_string.split(';') if c.strip()]
CoilLabels(coil_string) ==
    LET parts == StrSplit(coil_string, ";")
        stripped == [i \in 1..Len(parts) |-> StrStrip(parts[i])]
    IN  SelectSeq(stripped, LAMBDA c : c # <<>>)

InSeq(x, seq) == \E i \in 1..Len(seq) : seq[i] = x

\* next((o for o in candidates if o in text), None); <<>> stands for None
FirstIn(candidates, text) ==
    LET hits == {i \in 1..Len(candidates) : StrIn(candidates[i], text)}
    IN  IF hits = {} THEN <<>>
        ELSE candidates[CHOOSE i \in hits : \A j \in hits : i <= j]

TRA == <<"t","r","a">>
SAG == <<"s","a","g">>
COR == <<"c","o","r">>
NOISE == <<"n","o","i","s","e">>
NORM == <<"N","O","R","M">>

TORSO_ELEMENT_LABELS ==
    << <<"V","A","S","1">>, <<"V","A","S","2">>, <<"V","A","S","3">>,
       <<"V","P","S","1">>, <<"V","P","S","2">>, <<"V","P","S","3">>,
       <<"V","A","P","1">>, <<"V","A","P","2">>, <<"V","A","P","3">>,
       <<"V","P","P","1">>, <<"V","P","P","2">>, <<"V","P","P","3">> >>

HN_ELEMENT_LABELS ==
    << <<"V","A","S","1">>, <<"V","A","S","2">>, <<"V","A","S","3">>,
       <<"V","P","S","1">>, <<"V","P","S","2">>, <<"V","P","S","3">>,
       <<"V","A","P","1">>, <<"V","A","P","2">>,
       <<"V","P","P","1">>, <<"V","P","P","2">> >>

DESKTOP_ELEMENT_LABELS == HN_ELEMENT_LABELS

ELEMENT_LABELS(v) ==
    CASE v = "torso" -> TORSO_ELEMENT_LABELS
      [] v = "hn" -> HN_ELEMENT_LABELS
      [] v = "desktop" -> DESKTOP_ELEMENT_LABELS

----------------------------------------------------------------------------
(* Insertion-ordered dict: a sequence of <<key, value>> *)

DictHas(d, k) == \E i \in 1..Len(d) : d[i][1] = k
DictGet(d, k) == d[CHOOSE i \in 1..Len(d) : d[i][1] = k][2]
DictSet_mutant(d, k, x) ==
    IF DictHas(d, k) THEN d ELSE Append(d, <<k, x>>)

\* d[k] = x
DictSet(d, k, x) ==
    IF DictHas(d, k)
    THEN [i \in 1..Len(d) |-> IF d[i][1] = k THEN <<k, x>> ELSE d[i]]
    ELSE Append(d, <<k, x>>)
DictKeys(d) == [i \in 1..Len(d) |-> d[i][1]]
DictValues(d) == {d[i][2] : i \in 1..Len(d)}

----------------------------------------------------------------------------
(* The files on disk: what pydicom reads from each path *)

\* Optional attributes: <<>> when the data set lacks the attribute, <<x>> else.
\*   hdr    dcmread(path, stop_before_pixels=True) succeeds
\*   desc   SeriesDescription
\*   coil   value of the private element (0051,100F)
\*   types  ImageType
\*   px     the pixel data decodes
\*   amax   maximum of the raw pixel array
\*   smax, smin, smean  statistics under the signal ROI of the loaded image
\*   nstd   standard deviation under the noise ROI of the loaded image
\*   array  height, width and layout of the pixel array
\*   spacing  PixelSpacing, in mm
\* The statistics are those of the pixels an ROI selects; they mean nothing
\* for an ROI that selects no pixel.
BaseFile ==
    [path |-> <<>>, hdr |-> TRUE, desc |-> <<>>, coil |-> <<>>, types |-> <<>>,
     px |-> TRUE, amax |-> 9, smax |-> 9, smin |-> 7, smean |-> 8, nstd |-> 2,
     array |-> <<MaxDim, MaxDim, "big">>, spacing |-> <<20, 20>>]

ClassifyCatalog ==
    << [BaseFile EXCEPT !.path = <<"/","a","1">>,
                      !.desc = << <<"t","1","_","t","r","a">> >>,
                      !.types = << << <<"M">>, <<"N","O","R","M">> >> >>],
       [BaseFile EXCEPT !.path = <<"/","a","2">>,
                      !.desc = << <<"T","R","A","_","S","A","G">> >>,
                      !.coil = << <<"V","A","S","1",";","V","A","S","2">> >>,
                      !.types = << << <<"M">>, <<"N","D">> >> >>],
       [BaseFile EXCEPT !.path = <<"/","n","o","i","s","e","/","a","3">>,
                      !.desc = << <<"t","1","_","t","r","a">> >>,
                      !.coil = << <<>> >>],
       [BaseFile EXCEPT !.path = <<"/","a","4">>,
                      !.desc = << <<"s","a","g","_","c","o","r","_","N","o","i","s","e">> >>,
                      !.types = << << <<"M">>, <<"N","D">> >> >>],
       [BaseFile EXCEPT !.path = <<"/","a","5">>,
                      !.desc = << <<"t","r","a">> >>,
                      !.coil = << <<"V","A","S","1">> >>,
                      !.types = << << <<"m">>, <<"n","o","r","m">> >> >>],
       [BaseFile EXCEPT !.path = <<"/","a","6">>,
                      !.desc = << <<"x","_","n","o","i","s","e">> >>,
                      !.coil = << <<" ","V","A","S","1"," ",";">> >>,
                      !.types = << << <<"M">>, <<"N","D">> >> >>],
       [BaseFile EXCEPT !.path = <<"/","a","7">>,
                      !.desc = << <<"c","o","r">> >>,
                      !.coil = << <<"V","A","P","3">> >>,
                      !.types = << << <<"M">>, <<"N","D">> >> >>],
       [BaseFile EXCEPT !.path = <<"/","a","8">>,
                      !.desc = << <<"l","o","c">> >>,
                      !.coil = << <<"B","O","D","Y">> >>,
                      !.types = << << <<"M">>, <<"N","O","R","M">> >> >>],
       [BaseFile EXCEPT !.path = <<"/","a","9">>,
                      !.desc = << <<"t","r","a">> >>,
                      !.types = << << <<"M">>, <<"N","O","R","M">> >> >>,
                      !.hdr = FALSE],
       [BaseFile EXCEPT !.path = <<"/","b","1">>,
                      !.desc = << <<"t","1","_","t","r","a">> >>,
                      !.types = << << <<"M">>, <<"N","O","R","M">> >> >>,
                      !.amax = 0,
                      !.array = <<MaxDim, MaxDim, "dark">>,
                      !.smax = 0,
                      !.smin = 0,
                      !.smean = 0,
                      !.nstd = 0],
       [BaseFile EXCEPT !.path = <<"/","b","2">>,
                      !.desc = << <<"t","1","_","t","r","a">> >>,
                      !.types = << << <<"M">>, <<"N","O","R","M">> >> >>,
                      !.px = FALSE],
       [BaseFile EXCEPT !.path = <<"/","N","O","I","S","E","/","b","3">>,
                      !.desc = << <<"S","a","g">> >>,
                      !.coil = << <<"V","A","S","1">> >>,
                      !.types = << << <<"M">>, <<"N","D">> >> >>],
       [BaseFile EXCEPT !.path = <<"/","b","4">>] >>


ProcessCatalog ==
    << [BaseFile EXCEPT !.path = <<"/","s","/","1">>,
                      !.desc = << <<"t","1","_","s","a","g">> >>,
                      !.types = << << <<"M">>, <<"N","O","R","M">> >> >>],
       [BaseFile EXCEPT !.path = <<"/","s","/","2">>,
                      !.desc = << <<"t","1","_","s","a","g">> >>,
                      !.types = << << <<"M">>, <<"N","D">> >> >>,
                      !.smax = 8,
                      !.smin = 4,
                      !.smean = 6],
       [BaseFile EXCEPT !.path = <<"/","s","/","3">>,
                      !.desc = << <<"s","a","g","_","n","o","i","s","e">> >>,
                      !.types = << << <<"M">>, <<"N","D">> >> >>],
       [BaseFile EXCEPT !.path = <<"/","s","/","4">>,
                      !.desc = << <<"s","a","g","_","n","o","i","s","e">> >>,
                      !.types = << << <<"M">>, <<"N","O","R","M">> >> >>,
                      !.nstd = 3],
       [BaseFile EXCEPT !.path = <<"/","t","/","1">>,
                      !.desc = << <<"t","1","_","t","r","a">> >>,
                      !.types = << << <<"M">>, <<"N","O","R","M">> >> >>,
                      !.smax = 6,
                      !.smin = 6,
                      !.smean = 6],
       [BaseFile EXCEPT !.path = <<"/","t","/","2">>,
                      !.desc = << <<"t","r","a","_","n","o","i","s","e">> >>,
                      !.types = << << <<"M">>, <<"N","D">> >> >>,
                      !.nstd = 1],
       [BaseFile EXCEPT !.path = <<"/","c","/","1">>,
                      !.desc = << <<"t","1","_","c","o","r">> >>,
                      !.types = << << <<"M">>, <<"N","O","R","M">> >> >>,
                      !.px = FALSE],
       [BaseFile EXCEPT !.path = <<"/","c","/","2">>,
                      !.desc = << <<"c","o","r","_","n","o","i","s","e">> >>,
                      !.types = << << <<"M">>, <<"N","D">> >> >>,
                      !.nstd = 1],
       [BaseFile EXCEPT !.path = <<"/","e","/","1">>,
                      !.desc = << <<"e","l">> >>,
                      !.coil = << <<"V","A","S","1">> >>,
                      !.types = << << <<"M">>, <<"N","O","R","M">> >> >>,
                      !.smax = 5,
                      !.smin = 5,
                      !.smean = 5],
       [BaseFile EXCEPT !.path = <<"/","e","/","2">>,
                      !.desc = << <<"e","l","_","n","o","i","s","e">> >>,
                      !.coil = << <<"V","A","S","1">> >>,
                      !.types = << << <<"M">>, <<"N","D">> >> >>,
                      !.nstd = 3],
       [BaseFile EXCEPT !.path = <<"/","e","/","3">>,
                      !.desc = << <<"e","l">> >>,
                      !.coil = << <<"V","P","P","2">> >>,
                      !.types = << << <<"M">>, <<"N","D">> >> >>,
                      !.smax = 7,
                      !.smean = 7],
       [BaseFile EXCEPT !.path = <<"/","e","/","4">>,
                      !.desc = << <<"e","l","_","n","o","i","s","e">> >>,
                      !.coil = << <<"V","P","P","2">> >>,
                      !.types = << << <<"M">>, <<"N","D">> >> >>,
                      !.nstd = 0],
       [BaseFile EXCEPT !.path = <<"/","c","/","3">>,
                      !.desc = << <<"t","1","_","c","o","r">> >>,
                      !.types = << << <<"M">>, <<"N","O","R","M">> >> >>,
                      !.array = <<16, 16, "spot">>,
                      !.spacing = <<3, 3>>],
       [BaseFile EXCEPT !.path = <<"/","e","/","6">>,
                      !.desc = << <<"e","l","_","n","o","i","s","e">> >>,
                      !.coil = << <<"V","A","S","1">> >>,
                      !.types = << << <<"M">>, <<"N","D">> >> >>,
                      !.array = <<16, 16, "spot">>,
                      !.spacing = <<1, 1>>] >>


SeqRange(seq) == {seq[i] : i \in 1..Len(seq)}

\* lists of distinct paths, at most n long
PathLists(paths, n) ==
    UNION {{s \in [1..k -> paths] : \A i, j \in 1..k : s[i] = s[j] => i = j} :
           k \in 0..n}

CatalogPaths(cat) == {cat[i].path : i \in 1..Len(cat)}

FileSystem == SeqRange(ClassifyCatalog) \cup SeqRange(ProcessCatalog)

\* the data set stored under each path
FileTable ==
    [p \in {ds.path : ds \in FileSystem} |->
        CHOOSE ds \in FileSystem : ds.path = p]

\* pydicom.dcmread(f, ...)
dcmread(f) == FileTable[f]

----------------------------------------------------------------------------
(* classify_files *)

EmptyBuckets == [combined |-> <<>>, individual |-> <<>>]

\* getattr(ds, "SeriesDescription", "")
SeriesDescription(ds) == IF ds.desc = <<>> THEN <<>> ELSE ds.desc[1]

\* coil_elem.value if coil_elem is not None else ""
CoilString(ds) == IF ds.coil = <<>> THEN <<>> ELSE ds.coil[1]

\* hasattr(ds, 'ImageType') and 'NORM' in [t.upper() for t in ds.ImageType]
IsNorm(ds) ==
    /\ ds.types # <<>>
    /\ InSeq(NORM, [i \in 1..Len(ds.types[1]) |-> StrUpper(ds.types[1][i])])

\* 'noise' if 'noise' in series_desc or 'noise' in f.lower() else 'image'
FileTypeDescOrPath(series_desc_lower, f) ==
    IF StrIn(NOISE, series_desc_lower) \/ StrIn(NOISE, StrLower(f))
    THEN "noise" ELSE "image"

\* 'noise' if 'noise' in desc else 'image'
FileTypeDesc(desc_lower) ==
    IF StrIn(NOISE, desc_lower) THEN "noise" ELSE "image"

TORSO_ORIENTATIONS == <<TRA, SAG, COR>>
HN_ORIENTATIONS == <<TRA, SAG, COR>>
DESKTOP_ORIENTATIONS == <<SAG, TRA, COR>>

torso_is_individual_mutant(coil_labels) ==
    \E i \in 1..Len(coil_labels) : InSeq(coil_labels[i], TORSO_ELEMENT_LABELS)

\* any(el in ELEMENT_LABELS for el in coil_labels) and len(coil_labels) == 1
torso_is_individual(coil_labels) ==
    /\ \E i \in 1..Len(coil_labels) : InSeq(coil_labels[i], TORSO_ELEMENT_LABELS)
    /\ Len(coil_labels) = 1

\* len(coil_labels) == 1 and coil_labels[0] in ELEMENT_LABELS
hn_is_individual(coil_labels) ==
    Len(coil_labels) = 1 /\ InSeq(coil_labels[1], HN_ELEMENT_LABELS)

\* len(labels) == 1 and labels[0] in ELEMENT_LABELS
desktop_is_individual(labels) ==
    Len(labels) = 1 /\ InSeq(labels[1], DESKTOP_ELEMENT_LABELS)

\* torso.py classify_files: the body of the try block, header read as ds
torso_classify_ds(b, f, ds) ==
    LET series_desc == StrLower(SeriesDescription(ds))
        coil_string == CoilString(ds)
        orientation == FirstIn(TORSO_ORIENTATIONS, series_desc)
        coil_labels == CoilLabels(coil_string)
        type_ == FileTypeDescOrPath(series_desc, f)
    IN  IF torso_is_individual(coil_labels)
        THEN [b EXCEPT !.individual = DictSet(@, <<coil_labels[1], type_>>, f)]
        ELSE IF orientation # <<>>
        THEN [b EXCEPT !.combined = DictSet(@, <<orientation, type_>>, f)]
        ELSE b

hn_classify_ds_mutant(b, f, ds) ==
    LET sdl == StrLower(SeriesDescription(ds))
        coil_labels == CoilLabels(CoilString(ds))
        orientation == FirstIn(HN_ORIENTATIONS, sdl)
        ftype == FileTypeDescOrPath(sdl, f)
    IN  IF hn_is_individual(coil_labels)
        THEN [b EXCEPT !.individual =
                        DictSet(@, <<coil_labels[1], ftype, IsNorm(ds)>>, f)]
        ELSE IF orientation # <<>>
        THEN [b EXCEPT !.combined =
                        DictSet(@, <<orientation, ftype, IsNorm(ds)>>, f)]
        ELSE b

\* backend/head_neck.py classify_files: the body of the try block
hn_classify_ds(b, f, ds) ==
    LET sdl == StrLower(SeriesDescription(ds))
        coil_string == CoilString(ds)
        black == ds.px /\ ds.amax = 0
        is_norm == IsNorm(ds)
        coil_labels == CoilLabels(coil_string)
        orientation == FirstIn(HN_ORIENTATIONS, sdl)
        ftype == FileTypeDescOrPath(sdl, f)
    IN  IF black THEN b
        ELSE IF hn_is_individual(coil_labels)
        THEN [b EXCEPT !.individual =
                        DictSet(@, <<coil_labels[1], ftype, is_norm>>, f)]
        ELSE IF orientation # <<>>
        THEN [b EXCEPT !.combined =
                        DictSet(@, <<orientation, ftype, is_norm>>, f)]
        ELSE b

desktop_classify_ds_mutant(b, f, ds) ==
    LET desc == StrLower(SeriesDescription(ds))
        labels == IF ds.coil # <<>> THEN CoilLabels(ds.coil[1]) ELSE <<>>
        ftype == FileTypeDesc(desc)
        ori == FirstIn(DESKTOP_ORIENTATIONS, desc)
    IN  IF ori # <<>>
        THEN [b EXCEPT !.combined = DictSet(@, <<ori, ftype, IsNorm(ds)>>, f)]
        ELSE IF desktop_is_individual(labels)
        THEN [b EXCEPT !.individual = DictSet(@, <<labels[1], ftype>>, f)]
        ELSE b

\* desktop_app/head_neck.py classify_files: the body of the try block
desktop_classify_ds(b, f, ds) ==
    LET desc == StrLower(SeriesDescription(ds))
        labels == IF ds.coil # <<>> THEN CoilLabels(ds.coil[1]) ELSE <<>>
        is_norm == IsNorm(ds)
        ftype == FileTypeDesc(desc)
        ori == FirstIn(DESKTOP_ORIENTATIONS, desc)
    IN  IF desktop_is_individual(labels)
        THEN [b EXCEPT !.individual = DictSet(@, <<labels[1], ftype>>, f)]
        ELSE IF ori # <<>>
        THEN [b EXCEPT !.combined = DictSet(@, <<ori, ftype, is_norm>>, f)]
        ELSE b

torso_classify_file_mutant(b, f) == torso_classify_ds(b, f, dcmread(f))

\* one iteration of the loop: try: ds = dcmread(...) ... except: continue
torso_classify_file(b, f) ==
    IF ~dcmread(f).hdr THEN b ELSE torso_classify_ds(b, f, dcmread(f))

hn_classify_file(b, f) ==
    IF ~dcmread(f).hdr THEN b ELSE hn_classify_ds(b, f, dcmread(f))

desktop_classify_file(b, f) ==
    IF ~dcmread(f).hdr THEN b ELSE desktop_classify_ds(b, f, dcmread(f))

classify_file(v, b, f) ==
    CASE v = "torso" -> torso_classify_file(b, f)
      [] v = "hn" -> hn_classify_file(b, f)
      [] v = "desktop" -> desktop_classify_file(b, f)

\* classify_files(fs): the loop over the whole list
RECURSIVE classify_files(_, _)
classify_files(v, fs) ==
    IF fs = <<>> THEN EmptyBuckets
    ELSE classify_file(v, classify_files(v, SubSeq(fs, 1, Len(fs) - 1)),
                       fs[Len(fs)])

InitClassify ==
    /\ variant \in Variants
    /\ pc = "classify"
    /\ files \in PathLists(CatalogPaths(ClassifyCatalog), MaxFiles)
    /\ idx = 0
    /\ combined = <<>>
    /\ individual = <<>>
    /\ combined_results = <<>>
    /\ element_results = <<>>
    /\ call = NoCall
    /\ ret = None

\* for f in files: ... (one file)
ClassifyFile ==
    /\ pc = "classify"
    /\ idx < Len(files)
    /\ LET b == classify_file(variant,
                              [combined |-> combined, individual |-> individual],
                              files[idx + 1])
       IN  /\ combined' = b.combined
           /\ individual' = b.individual
    /\ idx' = idx + 1
    /\ UNCHANGED <<variant, pc, files, combined_results, element_results,
                   call, ret>>

\* return combined, individual
ClassifyReturn ==
    /\ pc = "classify"
    /\ idx = Len(files)
    /\ pc' = "classified"
    /\ UNCHANGED <<variant, files, idx, combined, individual,
                   combined_results, element_results, call, ret>>

NextClassify == ClassifyFile \/ ClassifyReturn

SpecClassify == InitClassify /\ [][NextClassify]_vars

----------------------------------------------------------------------------
(* Images, pixel spacings and radii *)

\* An image is two-valued: `blocks` are bright rectangles of value v > 0 on a
\* background of zeros, listed in raster order of their first pixel.  No two
\* blocks share an edge; two blocks may meet at a corner.
\* Lengths are whole millimetres; a radius in pixels is kept exactly, as the
\* fraction n / d its square equals.
Block(y0, x0, h, w) == [y0 |-> y0, x0 |-> x0, h |-> h, w |-> w]

MkImage(height, width, layout) ==
    [height |-> height, width |-> width, v |-> 100,
     blocks |->
        CASE layout = "dark" -> <<>>
          [] layout = "spot" -> <<Block(0, 0, 1, 1)>>
          [] layout = "corner" ->
                <<Block(height \div 2, width \div 2,
                        height - height \div 2, width - width \div 2)>>
          [] layout = "big" -> <<Block(1, 1, height - 1, width - 1)>>]

Dims == {1, 6, 16, MaxDim}
Layouts == {"dark", "spot", "corner", "big"}
Images ==
    {MkImage(s[1], s[2], s[3]) :
        s \in {t \in Dims \X Dims \X Layouts :
                    t[3] = "big" => (t[1] > 1 /\ t[2] > 1)}}

\* images given to the locator alone: objects of 600 and 650 pixels apart
\* ("two"), an object and a speck apart ("speck"), a speck at the corner of the
\* 600-pixel object ("joined_speck"), objects of 600 and 500 pixels meeting at
\* a corner ("joined"), two specks of 300 pixels meeting at a corner ("specks")
MkLocatorImage(layout) ==
    [height |-> MaxSide, width |-> MaxSide, v |-> 100,
     blocks |->
        CASE layout = "two" -> <<Block(0, 0, 20, 30), Block(30, 0, 26, 25)>>
          [] layout = "speck" -> <<Block(0, 0, 20, 30), Block(30, 40, 10, 10)>>
          [] layout = "joined_speck" ->
                <<Block(0, 0, 20, 30), Block(20, 30, 10, 10),
                  Block(35, 0, 26, 25)>>
          [] layout = "joined" -> <<Block(0, 0, 20, 30), Block(20, 30, 25, 20)>>
          [] layout = "specks" -> <<Block(0, 0, 15, 20), Block(15, 20, 15, 20)>>]
LocatorImages ==
    {MkLocatorImage(l) :
        l \in {"two", "speck", "joined_speck", "joined", "specks"}}

\* ds.PixelSpacing, in mm
Spacings == {<<1, 1>>, <<3, 3>>, <<20, 20>>, <<26, 14>>, <<120, 120>>}

Min(a, b) == IF a < b THEN a ELSE b
Max(a, b) == IF a > b THEN a ELSE b

Pixels(image) == (0..(image.height - 1)) \X (0..(image.width - 1))
InBlock(b, y, x) ==
    /\ b.y0 <= y /\ y < b.y0 + b.h
    /\ b.x0 <= x /\ x < b.x0 + b.w
IsBright(image, y, x) ==
    \E i \in 1..Len(image.blocks) : InBlock(image.blocks[i], y, x)
\* image[y, x]
PixelValue(image, y, x) == IF IsBright(image, y, x) THEN image.v ELSE 0
\* np.any(image > 0)
AnyPositive(image) == image.v > 0 /\ image.blocks # <<>>

\* np.unravel_index(np.argmax(image), image.shape) when some pixel is > 0:
\* the first pixel, in raster order, of maximum value
ArgMax(image) ==
    LET ys == {image.blocks[i].y0 : i \in 1..Len(image.blocks)}
        y == CHOOSE a \in ys : \A b \in ys : a <= b
        xs == {image.blocks[i].x0 :
                    i \in {j \in 1..Len(image.blocks) :
                               InBlock(image.blocks[j], y, image.blocks[j].x0)}}
        x == CHOOSE a \in xs : \A b \in xs : a <= b
    IN  <<y, x>>

\* np.pi as the fraction 355 / 113
PI_NUM == 355
PI_DEN == 113

R2(n, d) == [n |-> n, d |-> d]
\* (radius_mm / avg_spacing) ** 2, avg_spacing = avg2 / 2
TargetRadius(radius_mm, avg2) == R2(4 * radius_mm * radius_mm, avg2 * avg2)
\* (sqrt(area_mm2 / pi) / avg_spacing) ** 2
TargetArea(area_mm2, avg2) ==
    R2(4 * area_mm2 * PI_DEN, PI_NUM * avg2 * avg2)

RECURSIVE IsqrtFrom(_, _)
IsqrtFrom(x, k) == IF (k + 1) * (k + 1) > x THEN k ELSE IsqrtFrom(x, k + 1)
\* floor(sqrt(x))
Isqrt(x) == IsqrtFrom(x, 0)
\* floor(r ** 2)
FloorSq(r2) == r2.n \div r2.d
\* int(r)
IntOf(r2) == Isqrt(FloorSq(r2))
\* round(r): to nearest, ties to even
RoundOf(r2) ==
    LET k == IntOf(r2)
        odd == (2 * k + 1) * (2 * k + 1)
        q4 == (4 * r2.n) \div r2.d
    IN  IF q4 < odd THEN k
        ELSE IF q4 = odd /\ (4 * r2.n) % r2.d = 0
        THEN (IF k % 2 = 0 THEN k ELSE k + 1)
        ELSE k + 1
\* max(1, r) of a float r
Max1(r2) == IF r2.n < r2.d THEN R2(1, 1) ELSE r2
\* an integer radius
OfInt(k) == R2(k * k, 1)

\* ((X - cx) ** 2 + (Y - cy) ** 2) <= r ** 2, as the set of selected pixels
Mask(image, cy, cx, r2) ==
    {p \in Pixels(image) :
        (p[2] - cx) * (p[2] - cx) + (p[1] - cy) * (p[1] - cy) <= FloorSq(r2)}

RoiResult(image, cy, cx, r2) ==
    [raised |-> FALSE, cy |-> cy, cx |-> cx, r2 |-> r2,
     mask |-> Mask(image, cy, cx, r2)]
RoiRaised(e) == [raised |-> TRUE, exc |-> e]

----------------------------------------------------------------------------
(* Phantom Locator: detect_circular_object, detect_phantom_center *)

\* morphology.remove_small_objects(binary_mask, min_size=500)
MIN_SIZE == 500

\* filters.threshold_otsu(image): for an image of at most two values the
\* threshold separates them; a single-valued image yields that value
threshold_otsu(image) == 0

\* image > threshold as remove_small_objects labels it, with its default
\* connectivity 1 (pixels joined by an edge): each block is one object
Components(image) ==
    IF image.v > threshold_otsu(image) THEN image.blocks ELSE <<>>

BlockArea(b) == b.h * b.w
KeepsSize(b) == BlockArea(b) >= MIN_SIZE
remove_small_objects(comps) == SelectSeq(comps, KeepsSize)

\* two blocks with neighbouring pixels under the full connectivity (edge or
\* corner) that measure.label uses by default
Touching(a, b) ==
    /\ a.y0 <= b.y0 + b.h /\ b.y0 <= a.y0 + a.h
    /\ a.x0 <= b.x0 + b.w /\ b.x0 <= a.x0 + a.w

RECURSIVE Joined(_, _)
Joined(blocks, S) ==
    LET T == S \cup {j \in 1..Len(blocks) :
                        \E i \in S : Touching(blocks[i], blocks[j])}
    IN  IF T = S THEN S ELSE Joined(blocks, T)

\* measure.label(binary_mask): the connected components, each a set of blocks,
\* in the order of their first pixels
label(blocks) ==
    LET first == {i \in 1..Len(blocks) :
                    \A j \in Joined(blocks, {i}) : i <= j}
        nth(k) == CHOOSE i \in first : Cardinality({j \in first : j < i}) = k - 1
    IN  [k \in 1..Cardinality(first) |->
            {blocks[j] : j \in Joined(blocks, {nth(k)})}]

\* measure.regionprops(measure.label(binary_mask))
Regions(image) == label(remove_small_objects(Components(image)))

RECURSIVE SumOver(_, _)
SumOver(f, S) ==
    IF S = {} THEN 0
    ELSE LET x == CHOOSE x \in S : TRUE
         IN  f[x] + SumOver(f, S \ {x})

\* r.area, and the sums of the row and column indices of the pixels of r
RegionArea(r) == SumOver([b \in r |-> BlockArea(b)], r)
RowSum(r) ==
    SumOver([b \in r |-> b.w * (b.h * b.y0 + (b.h * (b.h - 1)) \div 2)], r)
ColSum(r) ==
    SumOver([b \in r |-> b.h * (b.w * b.x0 + (b.w * (b.w - 1)) \div 2)], r)

\* max(regions, key=lambda r: r.area): the first region of maximum area
LargestRegion(regions) ==
    regions[CHOOSE i \in 1..Len(regions) :
                \A j \in 1..Len(regions) :
                    /\ RegionArea(regions[j]) <= RegionArea(regions[i])
                    /\ j < i => RegionArea(regions[j]) < RegionArea(regions[i])]

Located(cy, cx, r, warned) == [cy |-> cy, cx |-> cx, r |-> r, warned |-> warned]

\* return image.shape[0] // 2, image.shape[1] // 2, min(image.shape) // 4
locator_fallback(image, warns) ==
    Located(image.height \div 2, image.width \div 2,
            Min(image.height, image.width) \div 4, warns)

\* int(center_y), int(center_x), int(np.sqrt(area / np.pi))
locator_largest(regions) ==
    LET largest == LargestRegion(regions)
    IN  Located(RowSum(largest) \div RegionArea(largest),
                ColSum(largest) \div RegionArea(largest),
                Isqrt((RegionArea(largest) * PI_DEN) \div PI_NUM), FALSE)

\* backend/head_neck.py
hn_detect_circular_object(image) ==
    IF Regions(image) = <<>> THEN locator_fallback(image, TRUE)
    ELSE locator_largest(Regions(image))

\* backend/nema_body.py
nema_detect_circular_object(image) ==
    IF Regions(image) = <<>> THEN locator_fallback(image, TRUE)
    ELSE locator_largest(Regions(image))

\* desktop_app/head_neck.py: the fallback logs nothing
detect_phantom_center(image) ==
    IF Regions(image) = <<>> THEN locator_fallback(image, FALSE)
    ELSE locator_largest(Regions(image))

detect(script, image) ==
    CASE script = "hn" -> hn_detect_circular_object(image)
      [] script = "nema" -> nema_detect_circular_object(image)
      [] script = "desktop" -> detect_phantom_center(image)

----------------------------------------------------------------------------
(* ROI Builder *)

TORSO_NOISE_AREA_MM2 == 34000
TORSO_SIGNAL_RADIUS_MM == 30
HN_NOISE_AREA_MM2 == 34000
HN_NEMA_SIGNAL_AREA_MM2 == 33800
HN_SIGNAL_RADIUS_MM == 3
NEMA_DESIRED_AREA_MM2 == 33800
DESKTOP_NOISE_AREA_MM2 == 33500
DESKTOP_SIGNAL_RADIUS_MM == 3

\* max(margin, min(size - margin, c))
Clamp(c, margin, size) == Max(margin, Min(size - margin, c))

\* backend/head_neck.py create_circular_roi_nema_style
create_circular_roi_nema_style(image, pixel_spacing) ==
    LET avg2 == pixel_spacing[1] + pixel_spacing[2]
        radius_px == Max(1, RoundOf(TargetArea(HN_NEMA_SIGNAL_AREA_MM2, avg2)))
        obj == hn_detect_circular_object(image)
        cy == Min(obj.cy + 3, image.height - radius_px - 1)
        capped == Min(radius_px, Max(1, obj.r - 2))
    IN  RoiResult(image, cy, obj.cx, OfInt(capped))

\* backend/head_neck.py create_central_circle_roi
create_central_circle_roi(image, pixel_spacing) ==
    LET avg2 == pixel_spacing[1] + pixel_spacing[2]
        r_px == Max(1, RoundOf(TargetArea(HN_NOISE_AREA_MM2, avg2)))
    IN  RoiResult(image, image.height \div 2, image.width \div 2, OfInt(r_px))

\* r_pixels = max(1, radius_mm / avg_spacing) or max(1, r_mm / avg_spacing)
hn_r_pixels(mode, avg2) ==
    IF mode = "signal" THEN Max1(TargetRadius(HN_SIGNAL_RADIUS_MM, avg2))
    ELSE Max1(TargetArea(HN_NOISE_AREA_MM2, avg2))

\* backend/head_neck.py create_roi_mask
hn_create_roi_mask(image, pixel_spacing, mode, find_max_intensity) ==
    LET avg2 == pixel_spacing[1] + pixel_spacing[2]
        r_pixels == hn_r_pixels(mode, avg2)
        seek == mode = "signal" /\ find_max_intensity /\ AnyPositive(image)
        cy0 == IF seek THEN ArgMax(image)[1] ELSE image.height \div 2
        cx0 == IF seek THEN ArgMax(image)[2] ELSE image.width \div 2
        margin == IntOf(r_pixels) + 5
        cx == Clamp(cx0, margin, image.width)
        cy == Clamp(cy0, margin, image.height)
    IN  RoiResult(image, cy, cx, r_pixels)

VPP3 == <<"V", "P", "P", "3">>
VPS2 == <<"V", "P", "S", "2">>
VPS3 == <<"V", "P", "S", "3">>
VPP1 == <<"V", "P", "P", "1">>
VPP2 == <<"V", "P", "P", "2">>
VAP3 == <<"V", "A", "P", "3">>
VAS1 == <<"V", "A", "S", "1">>

\* torso.py: the per-element tuning of the candidate search
search_radius(element) ==
    IF InSeq(element, <<VPP3, VPS2>>) THEN 60
    ELSE IF element = VPS3 THEN 55
    ELSE IF InSeq(element, <<VPP1, VPP2>>) THEN 50
    ELSE IF element = VAP3 THEN 35
    ELSE 25
num_candidates(element) ==
    IF InSeq(element, <<VPP3, VPS2>>) THEN 300
    ELSE IF element = VPS3 THEN 250
    ELSE IF InSeq(element, <<VPP1, VPP2>>) THEN 200
    ELSE IF element = VAP3 THEN 100
    ELSE 50
step_size(element) == IF InSeq(element, <<VPP3, VPS2, VPS3>>) THEN 1 ELSE 2

\* some offset of range(-search_radius, search_radius + 1, step_size) leads
\* from a coordinate of the block's extent [lo, lo + n) to c
GridReaches(lo, n, c, element) ==
    \E a \in lo..(lo + n - 1) :
        /\ Abs(c - a) <= search_radius(element)
        /\ (c - a + search_radius(element)) % step_size(element) = 0

\* the candidate centres: the bright pixels (strategies 1, 3, 4 and 5) and the
\* grid points around the maxima (strategy 2); when more than ten pixels share
\* the maximum, every one of them may be among the ten maxima searched around
Candidates(image, element) ==
    {p \in Pixels(image) :
        \/ IsBright(image, p[1], p[2])
        \/ \E i \in 1..Len(image.blocks) :
            /\ GridReaches(image.blocks[i].y0, image.blocks[i].h, p[1], element)
            /\ GridReaches(image.blocks[i].x0, image.blocks[i].w, p[2], element)}

\* pixels of the test ROI around a candidate that are bright; the score of a
\* two-valued image grows with their number and is positive iff it is not 0
BrightInDisc(image, cy, cx, r2) ==
    LET k == IntOf(r2)
    IN  Cardinality({p \in ((cy - k)..(cy + k)) \X ((cx - k)..(cx + k)) :
            /\ (p[2] - cx) * (p[2] - cx) + (p[1] - cy) * (p[1] - cy)
                    <= FloorSq(r2)
            /\ IsBright(image, p[1], p[2])})

\* if cy < margin or cy >= height - margin or cx < margin or ...: continue
WithinMargin(image, cy, cx, margin) ==
    /\ cy >= margin /\ cy < image.height - margin
    /\ cx >= margin /\ cx < image.width - margin

\* of the pairs <<centre, score>>, the centres of highest score, which has to
\* be positive (best_snr = 0 initially)
HighestScored(scores) ==
    {a[1] : a \in {a \in scores : a[2] > 0 /\ \A b \in scores : b[2] <= a[2]}}

\* the candidates best_center can end up as: those of highest score; which
\* of several equal ones wins depends on the iteration order of a set
BestCenters(image, element, r2) ==
    HighestScored(
        {<<p, BrightInDisc(image, p[1], p[2], r2)>> :
            p \in {q \in Candidates(image, element) :
                       WithinMargin(image, q[1], q[2], IntOf(r2) + 5)}})

\* image[center_y, center_x] inside a print: raises when out of bounds
IndexOk(image, cy, cx) ==
    /\ 0 - image.height <= cy /\ cy < image.height
    /\ 0 - image.width <= cx /\ cx < image.width

\* the mask, and the validation of a signal ROI: np.min(roi_pixels)
torso_finish(image, cy, cx, r2, validates) ==
    IF validates /\ Mask(image, cy, cx, r2) = {}
    THEN RoiRaised("ValueError")
    ELSE RoiResult(image, cy, cx, r2)

\* centre moved to the clamped position, then printed with its pixel value
torso_clamped(image, cy0, cx0, r2) ==
    LET margin == IntOf(r2) + 5
        cx == Clamp(cx0, margin, image.width)
        cy == Clamp(cy0, margin, image.height)
    IN  IF IndexOk(image, cy, cx) THEN torso_finish(image, cy, cx, r2, TRUE)
        ELSE RoiRaised("IndexError")

\* torso.py create_roi_mask: the set of results the call can have
torso_create_roi_mask(image, pixel_spacing, mode, find_max_intensity, is_individual, element) ==
    LET avg2 == pixel_spacing[1] + pixel_spacing[2]
        r_pixels == IF mode = "signal"
                    THEN TargetRadius(TORSO_SIGNAL_RADIUS_MM, avg2)
                    ELSE TargetArea(TORSO_NOISE_AREA_MM2, avg2)
        center_y == image.height \div 2
        center_x == image.width \div 2
        seek == find_max_intensity /\ mode = "signal"
    IN  IF ~seek \/ ~AnyPositive(image)
        THEN {torso_finish(image, center_y, center_x, r_pixels, seek)}
        ELSE IF is_individual /\ element # <<>>
        THEN IF image.height * image.width < num_candidates(element)
             THEN {RoiRaised("ValueError")}
             ELSE IF BestCenters(image, element, r_pixels) # {}
             THEN {torso_finish(image, p[1], p[2], r_pixels, TRUE) :
                        p \in BestCenters(image, element, r_pixels)}
             ELSE {torso_clamped(image, ArgMax(image)[1], ArgMax(image)[2],
                                 r_pixels)}
        ELSE LET count == [i \in 1..Len(image.blocks) |->
                                BlockArea(image.blocks[i])]
                 sum_y == [i \in 1..Len(image.blocks) |->
                            LET b == image.blocks[i]
                            IN  b.w * (b.h * b.y0 + (b.h * (b.h - 1)) \div 2)]
                 sum_x == [i \in 1..Len(image.blocks) |->
                            LET b == image.blocks[i]
                            IN  b.h * (b.w * b.x0 + (b.w * (b.w - 1)) \div 2)]
                 Total(f) == IF Len(image.blocks) = 1 THEN f[1]
                             ELSE f[1] + f[2]
             IN  {torso_clamped(image, Total(sum_y) \div Total(count),
                                Total(sum_x) \div Total(count), r_pixels)}

\* backend/nema_body.py create_circular_roi
create_circular_roi(image, pixel_spacing) ==
    LET radius_pixels ==
            Max(1, RoundOf(TargetArea(NEMA_DESIRED_AREA_MM2,
                                      2 * pixel_spacing[1])))
        obj == nema_detect_circular_object(image)
        center_y == Min(obj.cy + 3, image.height - radius_pixels - 1)
        capped == Min(radius_pixels, obj.r - 2)
    IN  RoiResult(image, center_y, obj.cx,
                  OfInt(IF capped < 1 THEN 1 ELSE capped))

\* desktop_app/head_neck.py make_combined_signal_roi
make_combined_signal_roi(img, spacing) ==
    LET obj == detect_phantom_center(img)
        r_px == Max(1, RoundOf(TargetRadius(DESKTOP_SIGNAL_RADIUS_MM,
                                            2 * spacing[1])))
    IN  RoiResult(img, obj.cy, obj.cx, OfInt(r_px))

\* desktop_app/head_neck.py make_combined_noise_roi
make_combined_noise_roi(img, spacing) ==
    LET r_px == Max(1, RoundOf(TargetArea(DESKTOP_NOISE_AREA_MM2,
                                          spacing[1] + spacing[2])))
    IN  RoiResult(img, img.height \div 2, img.width \div 2, OfInt(r_px))

----------------------------------------------------------------------------
(* Direct calls of the Phantom Locator and of the ROI builders, one call a
   behaviour *)

RoiScripts == {"torso", "hn", "nema", "desktop"}

\* one element of each tuning tier of torso.py
CallElements == {VPP3, VPS3, VPP1, VAP3, VAS1}

InitRoi ==
    /\ variant \in RoiScripts
    /\ pc = "roi"
    /\ files = <<>>
    /\ idx = 0
    /\ combined = <<>>
    /\ individual = <<>>
    /\ combined_results = <<>>
    /\ element_results = <<>>
    /\ call = NoCall
    /\ ret = None

\* detect_circular_object(image) / detect_phantom_center(image)
CallDetect ==
    /\ pc = "roi"
    /\ call = NoCall
    /\ variant \in {"hn", "nema", "desktop"}
    /\ \E image \in Images \cup LocatorImages :
          /\ call' = [fn |-> "detect", image |-> image]
          /\ ret' = detect(variant, image)
    /\ UNCHANGED <<variant, pc, files, idx, combined, individual,
                   combined_results, element_results>>

\* create_roi_mask(image, pixel_spacing, mode, ...) of torso.py, head_neck.py
CallCreateRoiMask ==
    /\ pc = "roi"
    /\ call = NoCall
    /\ variant \in {"torso", "hn"}
    /\ \E image \in Images, pixel_spacing \in Spacings,
          mode \in {"signal", "noise"}, find_max_intensity \in BOOLEAN,
          element \in CallElements \cup {<<>>} :
          /\ variant = "hn" => element = <<>>
          /\ call' = [fn |-> "create_roi_mask", image |-> image,
                      pixel_spacing |-> pixel_spacing, mode |-> mode,
                      find_max_intensity |-> find_max_intensity,
                      is_individual |-> element # <<>>, element |-> element]
          /\ ret' \in IF variant = "torso"
                      THEN torso_create_roi_mask(image, pixel_spacing, mode,
                                find_max_intensity, element # <<>>, element)
                      ELSE {hn_create_roi_mask(image, pixel_spacing, mode,
                                               find_max_intensity)}
    /\ UNCHANGED <<variant, pc, files, idx, combined, individual,
                   combined_results, element_results>>

\* create_circular_roi_nema_style(image, pixel_spacing)
CallCreateCircularRoiNemaStyle ==
    /\ pc = "roi"
    /\ call = NoCall
    /\ variant = "hn"
    /\ \E image \in Images, pixel_spacing \in Spacings :
          /\ call' = [fn |-> "create_circular_roi_nema_style",
                      image |-> image, pixel_spacing |-> pixel_spacing,
                      mode |-> "signal"]
          /\ ret' = create_circular_roi_nema_style(image, pixel_spacing)
    /\ UNCHANGED <<variant, pc, files, idx, combined, individual,
                   combined_results, element_results>>

\* create_central_circle_roi(image, pixel_spacing)
CallCreateCentralCircleRoi ==
    /\ pc = "roi"
    /\ call = NoCall
    /\ variant = "hn"
    /\ \E image \in Images, pixel_spacing \in Spacings :
          /\ call' = [fn |-> "create_central_circle_roi",
                      image |-> image, pixel_spacing |-> pixel_spacing,
                      mode |-> "noise"]
          /\ ret' = create_central_circle_roi(image, pixel_spacing)
    /\ UNCHANGED <<variant, pc, files, idx, combined, individual,
                   combined_results, element_results>>

\* nema_body.py create_circular_roi(image, pixel_spacing)
CallCreateCircularRoi ==
    /\ pc = "roi"
    /\ call = NoCall
    /\ variant = "nema"
    /\ \E image \in Images, pixel_spacing \in Spacings :
          /\ call' = [fn |-> "create_circular_roi",
                      image |-> image, pixel_spacing |-> pixel_spacing,
                      mode |-> "signal"]
          /\ ret' = create_circular_roi(image, pixel_spacing)
    /\ UNCHANGED <<variant, pc, files, idx, combined, individual,
                   combined_results, element_results>>

\* make_combined_signal_roi(img, spacing)
CallMakeCombinedSignalRoi ==
    /\ pc = "roi"
    /\ call = NoCall
    /\ variant = "desktop"
    /\ \E img \in Images, spacing \in Spacings :
          /\ call' = [fn |-> "make_combined_signal_roi",
                      image |-> img, pixel_spacing |-> spacing,
                      mode |-> "signal"]
          /\ ret' = make_combined_signal_roi(img, spacing)
    /\ UNCHANGED <<variant, pc, files, idx, combined, individual,
                   combined_results, element_results>>

\* make_combined_noise_roi(img, spacing)
CallMakeCombinedNoiseRoi ==
    /\ pc = "roi"
    /\ call = NoCall
    /\ variant = "desktop"
    /\ \E img \in Images, spacing \in Spacings :
          /\ call' = [fn |-> "make_combined_noise_roi",
                      image |-> img, pixel_spacing |-> spacing,
                      mode |-> "noise"]
          /\ ret' = make_combined_noise_roi(img, spacing)
    /\ UNCHANGED <<variant, pc, files, idx, combined, individual,
                   combined_results, element_results>>

NextRoi ==
    \/ CallDetect
    \/ CallCreateRoiMask
    \/ CallCreateCircularRoiNemaStyle
    \/ CallCreateCentralCircleRoi
    \/ CallCreateCircularRoi
    \/ CallMakeCombinedSignalRoi
    \/ CallMakeCombinedNoiseRoi

SpecRoi == InitRoi /\ [][NextRoi]_vars

----------------------------------------------------------------------------
(* The ROIs of the files on disk *)

\* ds.pixel_array, as load_dicom_image / load_image returns it
PixelArray(ds) == MkImage(ds.array[1], ds.array[2], ds.array[3])

\* what a call of an ROI builder did: it raised, its mask selects no pixel
\* ("empty"), or its mask selects some ("ok")
Outcome(results) ==
    IF \E r \in results : r.raised THEN "raised"
    ELSE IF \E r \in results : r.mask = {} THEN "empty"
    ELSE "ok"

\* the element a file is bucketed under when it is an element file
ElementOf(ds) ==
    IF Len(CoilLabels(CoilString(ds))) = 1 THEN CoilLabels(CoilString(ds))[1]
    ELSE <<>>

ProcessPaths == CatalogPaths(ProcessCatalog)

\* The outcome of each ROI builder call of process_torso_folder and of
\* process_hn_folder, on each file of the processed folders.
TorsoCombinedSignalRois ==
    {<<p, Outcome(torso_create_roi_mask(PixelArray(FileTable[p]),
                      FileTable[p].spacing, "signal", TRUE, FALSE, <<>>))>> :
        p \in ProcessPaths}
TorsoCombinedNoiseRois ==
    {<<p, Outcome(torso_create_roi_mask(PixelArray(FileTable[p]),
                      FileTable[p].spacing, "noise", FALSE, FALSE, <<>>))>> :
        p \in ProcessPaths}
TorsoElementSignalRois ==
    {<<p, Outcome(torso_create_roi_mask(PixelArray(FileTable[p]),
                      FileTable[p].spacing, "signal", TRUE, TRUE,
                      ElementOf(FileTable[p])))>> :
        p \in ProcessPaths}
TorsoElementNoiseRois ==
    {<<p, Outcome(torso_create_roi_mask(PixelArray(FileTable[p]),
                      FileTable[p].spacing, "noise", FALSE, TRUE,
                      ElementOf(FileTable[p])))>> :
        p \in ProcessPaths}
HnNemaStyleRois ==
    {<<p, Outcome({create_circular_roi_nema_style(PixelArray(FileTable[p]),
                       FileTable[p].spacing)})>> :
        p \in ProcessPaths}
HnCentralCircleRois ==
    {<<p, Outcome({create_central_circle_roi(PixelArray(FileTable[p]),
                       FileTable[p].spacing)})>> :
        p \in ProcessPaths}
HnElementSignalRois ==
    {<<p, Outcome({hn_create_roi_mask(PixelArray(FileTable[p]),
                       FileTable[p].spacing, "signal", TRUE)})>> :
        p \in ProcessPaths}
HnElementNoiseRois ==
    {<<p, Outcome({hn_create_roi_mask(PixelArray(FileTable[p]),
                       FileTable[p].spacing, "noise", FALSE)})>> :
        p \in ProcessPaths}

Roi(rois, ds) == (CHOOSE t \in rois : t[1] = ds.path)[2]

----------------------------------------------------------------------------
(* Pairing & aggregation: process_torso_folder, process_hn_folder *)

\* load_dicom_image(path) / load_image(path) returns, rather than raises
Loads(f) == dcmread(f).hdr /\ dcmread(f).px

\* a float statistic of the loaded image, in tenths
Stat(x) == Num(10 * x)

Completed(rows) == [raised |-> FALSE, rows |-> rows]
Aborted(rows) == [raised |-> TRUE, rows |-> rows]

CombinedRow(region, smax, smin, smean, sd, snr, uniformity) ==
    ("Region" :> region) @@ ("Signal Max" :> smax) @@ ("Signal Min" :> smin)
    @@ ("Signal Mean" :> smean) @@ ("Noise SD" :> sd) @@ ("SNR" :> snr)
    @@ ("Uniformity" :> uniformity)

ElementRow(element, smean, sd, snr) ==
    ("Element" :> element) @@ ("Signal Mean" :> smean) @@ ("Noise SD" :> sd)
    @@ ("SNR" :> snr)

\* np.mean(image[mask == 1]) / np.std(image[mask == 1]): nan when the mask
\* selects no pixel
np_mean(roi, x) == IF roi = "empty" THEN NaN ELSE Stat(x)
np_std(roi, x) == IF roi = "empty" THEN NaN ELSE Stat(x)

\* torso.py: create_roi_mask raised, or compute_metrics takes np.min of the
\* empty selection of a mask, which raises ValueError
torso_metrics_raise(signal_roi, noise_roi) ==
    \/ signal_roi = "raised" \/ noise_roi = "raised"
    \/ signal_roi = "empty" \/ noise_roi = "empty"

\* torso.py: the row of a combined view has no Signal Mean and no Noise SD
torso_combined_row(orientation, sig, noi) ==
    ("Region" :> StrUpper(orientation))
    @@ ("Signal Max" :> Stat(sig.smax)) @@ ("Signal Min" :> Stat(sig.smin))
    @@ ("SNR" :> torso_compute_snr(sig.smean, noi.nstd, "float64", FALSE))
    @@ ("Uniformity" :> torso_compute_uniformity(sig.smax, sig.smin))

\* for (orientation, img_type) in combined_files.keys(): ...
RECURSIVE torso_combined_loop(_, _, _)
torso_combined_loop(cf, i, rows) ==
    IF i > Len(cf) THEN Completed(rows)
    ELSE LET orientation == cf[i][1][1]
             img_type == cf[i][1][2]
             signal_file == DictGet(cf, <<orientation, "image">>)
             noise_key == <<orientation, "noise">>
         IN  IF img_type # "image" THEN torso_combined_loop(cf, i + 1, rows)
             ELSE IF ~Loads(signal_file) THEN Aborted(rows)
             ELSE IF ~DictHas(cf, noise_key)
             THEN torso_combined_loop(cf, i + 1, rows)
             ELSE IF ~Loads(DictGet(cf, noise_key)) THEN Aborted(rows)
             ELSE IF torso_metrics_raise(
                        Roi(TorsoCombinedSignalRois, dcmread(signal_file)),
                        Roi(TorsoCombinedNoiseRois,
                            dcmread(DictGet(cf, noise_key))))
             THEN Aborted(rows)
             ELSE torso_combined_loop(cf, i + 1,
                    Append(rows, torso_combined_row(orientation,
                        dcmread(signal_file), dcmread(DictGet(cf, noise_key)))))

torso_element_row(element, sig, noi) ==
    ElementRow(element, Stat(sig.smean), Stat(noi.nstd),
               torso_compute_snr(sig.smean, noi.nstd, "float64", TRUE))

\* for (element, img_type) in individual_files.keys(): ...
RECURSIVE torso_element_loop(_, _, _)
torso_element_loop(ifs, i, rows) ==
    IF i > Len(ifs) THEN Completed(rows)
    ELSE LET element == ifs[i][1][1]
             img_type == ifs[i][1][2]
             signal_file == DictGet(ifs, <<element, "image">>)
             noise_key == <<element, "noise">>
         IN  IF img_type # "image" THEN torso_element_loop(ifs, i + 1, rows)
             ELSE IF ~Loads(signal_file) THEN Aborted(rows)
             ELSE IF ~DictHas(ifs, noise_key)
             THEN torso_element_loop(ifs, i + 1, rows)
             ELSE IF ~Loads(DictGet(ifs, noise_key)) THEN Aborted(rows)
             ELSE IF torso_metrics_raise(
                        Roi(TorsoElementSignalRois, dcmread(signal_file)),
                        Roi(TorsoElementNoiseRois,
                            dcmread(DictGet(ifs, noise_key))))
             THEN Aborted(rows)
             ELSE torso_element_loop(ifs, i + 1,
                    Append(rows, torso_element_row(element,
                        dcmread(signal_file), dcmread(DictGet(ifs, noise_key)))))

\* backend/head_neck.py: for orientation in ['sag', 'tra', 'cor']
HN_LOOP_ORIENTATIONS == <<SAG, TRA, COR>>

hn_sig_key(orientation) == <<orientation, "image", TRUE>>
hn_noi_key(orientation) == <<orientation, "noise", FALSE>>
hn_uni_key(orientation) == <<orientation, "image", TRUE>>

\* backend/head_neck.py compute_metrics: (max, min, mean), zeros when the
\* mask selects no pixel
hn_compute_metrics(roi, ds) ==
    IF roi = "empty" THEN <<0, 0, 0>> ELSE <<ds.smax, ds.smin, ds.smean>>

\* compute_snr on what np.mean / np.std returned: nan == 0 is False, and nan
\* goes through the division and through round()
hn_compute_snr_of(sig_mean, noise_std) ==
    IF noise_std = Num(0) THEN Num(0)
    ELSE IF sig_mean = NaN \/ noise_std = NaN THEN NaN
    ELSE hn_compute_snr(sig_mean.x10 \div 10, noise_std.x10 \div 10)

hn_combined_row(orientation, sig, noi, cf) ==
    LET sig_mean == np_mean(Roi(HnNemaStyleRois, sig), sig.smean)
        noi_std == np_std(Roi(HnCentralCircleRois, noi), noi.nstd)
        snr == hn_compute_snr_of(sig_mean, noi_std)
        has_uni == DictHas(cf, hn_uni_key(orientation))
        uni == dcmread(DictGet(cf, hn_uni_key(orientation)))
        u == hn_compute_metrics(Roi(HnNemaStyleRois, uni), uni)
    IN  IF has_uni
        THEN CombinedRow(StrUpper(orientation), Stat(u[1]), Stat(u[2]),
                         Stat(u[3]), noi_std, snr,
                         hn_compute_uniformity(u[1], u[2]))
        ELSE CombinedRow(StrUpper(orientation), Stat(0), Stat(0), Stat(0),
                         noi_std, snr, Num(0))

RECURSIVE hn_combined_loop(_, _, _)
hn_combined_loop(cf, i, rows) ==
    IF i > Len(HN_LOOP_ORIENTATIONS) THEN Completed(rows)
    ELSE LET orientation == HN_LOOP_ORIENTATIONS[i]
             sig_key == hn_sig_key(orientation)
             noi_key == hn_noi_key(orientation)
         IN  IF ~DictHas(cf, sig_key) \/ ~DictHas(cf, noi_key)
             THEN hn_combined_loop(cf, i + 1, rows)
             ELSE IF ~Loads(DictGet(cf, sig_key)) \/ ~Loads(DictGet(cf, noi_key))
             THEN Aborted(rows)
             ELSE IF DictHas(cf, hn_uni_key(orientation))
                     /\ ~Loads(DictGet(cf, hn_uni_key(orientation)))
             THEN Aborted(rows)
             ELSE hn_combined_loop(cf, i + 1,
                    Append(rows, hn_combined_row(orientation,
                        dcmread(DictGet(cf, sig_key)),
                        dcmread(DictGet(cf, noi_key)), cf)))

\* individual_files.get(key); <<>> stands for None
DictGetOrNone(d, k) == IF DictHas(d, k) THEN DictGet(d, k) ELSE <<>>

\* normalized image preferred, else the unnormalized one
hn_img_path(ifs, el) ==
    IF DictGetOrNone(ifs, <<el, "image", TRUE>>) = <<>>
    THEN DictGetOrNone(ifs, <<el, "image", FALSE>>)
    ELSE DictGetOrNone(ifs, <<el, "image", TRUE>>)

\* unnormalized noise preferred, else the normalized one
hn_noise_path(ifs, el) ==
    IF DictGetOrNone(ifs, <<el, "noise", FALSE>>) = <<>>
    THEN DictGetOrNone(ifs, <<el, "noise", TRUE>>)
    ELSE DictGetOrNone(ifs, <<el, "noise", FALSE>>)

hn_element_row(el, img, noi) ==
    LET sig_mean == Stat(hn_compute_metrics(Roi(HnElementSignalRois, img),
                                            img)[3])
        noi_sd == np_std(Roi(HnElementNoiseRois, noi), noi.nstd)
    IN  ElementRow(el, sig_mean, noi_sd, hn_compute_snr_of(sig_mean, noi_sd))

RECURSIVE hn_element_loop(_, _, _)
hn_element_loop(ifs, i, rows) ==
    IF i > Len(HN_ELEMENT_LABELS) THEN Completed(rows)
    ELSE LET el == HN_ELEMENT_LABELS[i]
             img_path == hn_img_path(ifs, el)
             noise_path == hn_noise_path(ifs, el)
         IN  IF img_path = <<>> \/ noise_path = <<>>
             THEN hn_element_loop(ifs, i + 1, rows)
             ELSE IF ~Loads(img_path) \/ ~Loads(noise_path) THEN Aborted(rows)
             ELSE hn_element_loop(ifs, i + 1,
                    Append(rows, hn_element_row(el, dcmread(img_path),
                                                dcmread(noise_path))))

\* desktop_app/head_neck.py: for ori in ['sag', 'tra', 'cor'].  Its ROI
\* builders centre the disc on a pixel of the image with a radius of at least
\* one pixel, so its masks always select a pixel.
DESKTOP_LOOP_ORIENTATIONS == <<SAG, TRA, COR>>

desktop_key_sig(ori) == <<ori, "image", FALSE>>
desktop_key_noi(ori) == <<ori, "noise", FALSE>>
desktop_key_uni(ori) == <<ori, "image", TRUE>>

\* round(x, 1) of a statistic
RoundStat(x) == Num(Round1(x, 1))

desktop_combined_row(ori, sig, noi, comb) ==
    LET snr == desktop_compute_snr(sig.smean, noi.nstd)
        has_uni == DictHas(comb, desktop_key_uni(ori))
        uni == dcmread(DictGet(comb, desktop_key_uni(ori)))
    IN  IF has_uni
        THEN CombinedRow(StrUpper(ori), RoundStat(uni.smax), RoundStat(uni.smin),
                         RoundStat(sig.smean), RoundStat(noi.nstd), snr,
                         desktop_uni_pct(uni.smax, uni.smin))
        ELSE CombinedRow(StrUpper(ori), RoundStat(0), RoundStat(0),
                         RoundStat(sig.smean), RoundStat(noi.nstd), snr, Num(0))

RECURSIVE desktop_combined_loop(_, _, _)
desktop_combined_loop(comb, i, rows) ==
    IF i > Len(DESKTOP_LOOP_ORIENTATIONS) THEN Completed(rows)
    ELSE LET ori == DESKTOP_LOOP_ORIENTATIONS[i]
             key_sig == desktop_key_sig(ori)
             key_noi == desktop_key_noi(ori)
             key_uni == desktop_key_uni(ori)
         IN  IF ~(DictHas(comb, key_sig) /\ DictHas(comb, key_noi))
             THEN desktop_combined_loop(comb, i + 1, rows)
             ELSE IF ~Loads(DictGet(comb, key_sig)) \/ ~Loads(DictGet(comb, key_noi))
             THEN Aborted(rows)
             ELSE IF DictHas(comb, key_uni) /\ ~Loads(DictGet(comb, key_uni))
             THEN Aborted(rows)
             ELSE desktop_combined_loop(comb, i + 1,
                    Append(rows, desktop_combined_row(ori,
                        dcmread(DictGet(comb, key_sig)),
                        dcmread(DictGet(comb, key_noi)), comb)))

desktop_element_row(el, img, noi) ==
    ElementRow(el, RoundStat(img.smean), RoundStat(noi.nstd),
               desktop_compute_snr(img.smean, noi.nstd))

RECURSIVE desktop_element_loop(_, _, _)
desktop_element_loop(indiv, i, rows) ==
    IF i > Len(DESKTOP_ELEMENT_LABELS) THEN Completed(rows)
    ELSE LET el == DESKTOP_ELEMENT_LABELS[i]
             key_i == <<el, "image">>
             key_n == <<el, "noise">>
         IN  IF ~(DictHas(indiv, key_i) /\ DictHas(indiv, key_n))
             THEN desktop_element_loop(indiv, i + 1, rows)
             ELSE IF ~Loads(DictGet(indiv, key_i)) \/ ~Loads(DictGet(indiv, key_n))
             THEN Aborted(rows)
             ELSE desktop_element_loop(indiv, i + 1,
                    Append(rows, desktop_element_row(el,
                        dcmread(DictGet(indiv, key_i)),
                        dcmread(DictGet(indiv, key_n)))))

combined_loop(v, cf) ==
    CASE v = "torso" -> torso_combined_loop(cf, 1, <<>>)
      [] v = "hn" -> hn_combined_loop(cf, 1, <<>>)
      [] v = "desktop" -> desktop_combined_loop(cf, 1, <<>>)

element_loop(v, ifs) ==
    CASE v = "torso" -> torso_element_loop(ifs, 1, <<>>)
      [] v = "hn" -> hn_element_loop(ifs, 1, <<>>)
      [] v = "desktop" -> desktop_element_loop(ifs, 1, <<>>)

Returned(c, e) == [kind |-> "return", combined |-> c, elements |-> e]

RECURSIVE SortedSeq(_)
SortedSeq(S) ==
    IF S = {} THEN <<>>
    ELSE LET m == CHOOSE x \in S : \A y \in S : x <= y
         IN  <<m>> \o SortedSeq(S \ {m})

Reverse(seq) == [i \in 1..Len(seq) |-> seq[Len(seq) + 1 - i]]

\* the valid DICOM files found under a folder, in either directory order
Folders(cat, n) ==
    LET picks == {S \in SUBSET (1..Len(cat)) : Cardinality(S) <= n}
        listing(S) == [i \in 1..Cardinality(S) |-> cat[SortedSeq(S)[i]].path]
    IN  {listing(S) : S \in picks} \cup {Reverse(listing(S)) : S \in picks}

\* process_torso_folder(folder) / process_hn_folder(folder), files discovered
Init ==
    /\ variant \in Variants
    /\ pc = "discovered"
    /\ files \in Folders(ProcessCatalog, MaxFolder)
    /\ idx = 0
    /\ combined = <<>>
    /\ individual = <<>>
    /\ combined_results = <<>>
    /\ element_results = <<>>
    /\ call = NoCall
    /\ ret = None

\* backend/head_neck.py: if not dicom_files: return [], []
ReturnNoFiles ==
    /\ pc = "discovered"
    /\ variant = "hn"
    /\ files = <<>>
    /\ pc' = "returned"
    /\ ret' = Returned(<<>>, <<>>)
    /\ UNCHANGED <<variant, files, idx, combined, individual,
                   combined_results, element_results, call>>

\* combined_files, individual_files = classify_files(files)
CallClassify ==
    /\ pc = "discovered"
    /\ ~(variant = "hn" /\ files = <<>>)
    /\ pc' = "classify"
    /\ UNCHANGED <<variant, files, idx, combined, individual,
                   combined_results, element_results, call, ret>>

\* the loop over the combined views; a load that raises ends the function
ProcessCombined ==
    /\ pc = "classified"
    /\ LET out == combined_loop(variant, combined)
       IN  /\ combined_results' = out.rows
           /\ pc' = IF out.raised THEN "raised" ELSE "elements"
           /\ ret' = IF out.raised THEN Raised("load") ELSE ret
    /\ UNCHANGED <<variant, files, idx, combined, individual,
                   element_results, call>>

\* the loop over the elements, then return combined_results, element_results
ProcessElements ==
    /\ pc = "elements"
    /\ LET out == element_loop(variant, individual)
       IN  /\ element_results' = out.rows
           /\ pc' = IF out.raised THEN "raised" ELSE "returned"
           /\ ret' = IF out.raised THEN Raised("load")
                     ELSE Returned(combined_results, out.rows)
    /\ UNCHANGED <<variant, files, idx, combined, individual,
                   combined_results, call>>

Next ==
    \/ ReturnNoFiles
    \/ CallClassify
    \/ ClassifyFile
    \/ ClassifyReturn
    \/ ProcessCombined
    \/ ProcessElements

Spec == Init /\ [][Next]_vars

----------------------------------------------------------------------------
(* Files as bytes: is_dicom_file *)

READ_LEN == 132
DICM == <<"D", "I", "C", "M">>

\* A file on disk: `pre` zero bytes, the bytes `magic`, then `post` zero bytes.
\*   opens   open(path, 'rb') succeeds
\*   parses  pydicom.dcmread(path, stop_before_pixels=True, force=True)
\*           returns; the decoder is free to accept or to raise on any content
Pads == {0, 3, 124, 127, 128, 129}
Magics == {DICM, <<"D", "I", "C", "O">>, <<>>}
Tails == {0, 1, 8}
FileContents ==
    {[pre |-> a, magic |-> g, post |-> z, opens |-> o, parses |-> o /\ d] :
        a \in Pads, g \in Magics, z \in Tails, o \in BOOLEAN, d \in BOOLEAN}

Zeros(n) == [i \in 1..n |-> "0"]
Content(c) == Zeros(c.pre) \o c.magic \o Zeros(c.post)

\* f.read(n)
f_read(content, n) == SubSeq(content, 1, Min(n, Len(content)))
\* b[-n:]
LastBytes(b, n) == SubSeq(b, Max(1, Len(b) - n + 1), Len(b))

ReturnValue(x) == [kind |-> "return", value |-> x]

torso_is_dicom_file_mutant(c) ==
    ReturnValue(c.opens /\ LastBytes(f_read(Content(c), READ_LEN), 4) = DICM)

\* torso.py, head_neck.py, nema_body.py, desktop_app/head_neck.py: the last
\* four bytes of the first 132 are compared with b'DICM', then the file is
\* handed to the tolerant decoder; any exception gives False
torso_is_dicom_file(c) ==
    IF ~c.opens THEN ReturnValue(FALSE)
    ELSE LET preamble == f_read(Content(c), READ_LEN)
         IN  IF LastBytes(preamble, 4) # DICM THEN ReturnValue(FALSE)
             ELSE ReturnValue(c.parses)

\* script.py: the tolerant decoder alone
script_is_dicom_file(c) == ReturnValue(c.opens /\ c.parses)

Scripts == {"torso", "hn", "nema", "desktop", "script"}

is_dicom_file(script, c) ==
    IF script = "script" THEN script_is_dicom_file(c)
    ELSE torso_is_dicom_file(c)

----------------------------------------------------------------------------
(* nema_body.py: process_directory *)

\* the multiplier written in the two pairing loops, in hundredths
NEMA_SNR_MULTIPLIER == 66

\* round(n / d, 2) in hundredths: round-half-to-even of 100 * n / d, d > 0
Round2(n, d) ==
    LET q == (100 * n) \div d
        r == (100 * n) % d
    IN  IF 2 * r < d THEN q
        ELSE IF 2 * r > d THEN q + 1
        ELSE IF q % 2 = 0 THEN q ELSE q + 1
Hundredths(x100) == [kind |-> "num", x100 |-> x100]

\* parse_scan_id(name)
parse_scan_id(name) ==
    LET s == StrLower(name)
        type_ == IF StrIn(NOISE, s) THEN "noise"
                 ELSE IF StrIn(<<"i", "m", "a", "g", "e">>, s) THEN "image"
                 ELSE "Unknown"
        orientation == IF StrIn(SAG, s) THEN "Sagi"
                       ELSE IF StrIn(COR, s) THEN "Coronal"
                       ELSE IF StrIn(TRA, s) \/ StrIn(<<"t", "a", "n", "s">>, s) THEN "Trans"
                       ELSE "Unknown"
    IN  <<type_, orientation>>

\* A file of a scan:
\*   content  the file's bytes, as is_dicom_file sees them
\*   loads    load_dicom_image returns
\*   array, spacing  the pixel array and PixelSpacing
\*   Mean, Min, Max, Sum, StDev  the statistics compute_metrics takes from the
\*            data it selects (the ROI of an image scan, the whole noise scan)
DicomContent ==
    [pre |-> 128, magic |-> DICM, post |-> 8, opens |-> TRUE, parses |-> TRUE]
TextContent ==
    [pre |-> 0, magic |-> <<>>, post |-> 8, opens |-> TRUE, parses |-> TRUE]
ScanFile ==
    [isdir |-> FALSE, name |-> <<"f", ".", "d", "c", "m">>,
     content |-> DicomContent, loads |-> TRUE,
     array |-> <<MaxDim, MaxDim, "big">>, spacing |-> <<20, 20>>,
     Mean |-> 8, Min |-> 7, Max |-> 9, Sum |-> 80, StDev |-> 2, Slice |-> 1]
Subfolder(name, fs) == [isdir |-> TRUE, name |-> name, files |-> fs]

\* what a directory can hold: subfolders of scans and files
NemaCatalog ==
    << Subfolder(<<"i", "m", "a", "g", "e", "_", "s", "a", "g">>,
                 <<[ScanFile EXCEPT !.name = <<"n", "o", "t", "e", "s", ".", "t", "x", "t">>,
                                    !.content = TextContent],
                   ScanFile>>),
       Subfolder(<<"N", "o", "i", "s", "e", "_", "S", "A", "G">>, <<[ScanFile EXCEPT !.StDev = 3]>>),
       Subfolder(<<"i", "m", "a", "g", "e", "_", "t", "r", "a">>,
                 <<[ScanFile EXCEPT !.Mean = 6, !.Min = 4, !.Max = 8]>>),
       Subfolder(<<"n", "o", "i", "s", "e", "_", "t", "a", "n", "s">>, <<[ScanFile EXCEPT !.StDev = 0]>>),
       Subfolder(<<"i", "m", "a", "g", "e", "_", "c", "o", "r">>, <<[ScanFile EXCEPT !.loads = FALSE]>>),
       Subfolder(<<"c", "o", "r">>, <<ScanFile>>),
       Subfolder(<<"n", "o", "i", "s", "e", "_", "c", "o", "r">>, <<>>),
       [ScanFile EXCEPT !.name = <<"i", "m", "a", "g", "e", "_", "s", "a", "g", "_", "1">>],
       [ScanFile EXCEPT !.name = <<"i", "m", "a", "g", "e", "_", "s", "a", "g", "_", "2">>, !.Mean = 6, !.Min = 4,
                        !.Max = 8],
       [ScanFile EXCEPT !.name = <<"n", "o", "i", "s", "e", "_", "s", "a", "g", "_", "1">>, !.StDev = 3],
       [ScanFile EXCEPT !.name = <<"n", "o", "i", "s", "e", "_", "s", "a", "g", "_", "2">>, !.StDev = 0],
       [ScanFile EXCEPT !.name = <<"i", "m", "a", "g", "e", "_", "t", "r", "a", "_", "1">>,
                        !.array = <<16, 16, "spot">>, !.spacing = <<1, 1>>],
       [ScanFile EXCEPT !.name = <<"i", "m", "a", "g", "e", "_", "c", "o", "r", "_", "1">>, !.content = TextContent],
       [ScanFile EXCEPT !.name = <<"n", "o", "i", "s", "e", "_", "c", "o", "r", "_", "1">>, !.loads = FALSE] >>

\* os.listdir(input_directory), in either directory order
NemaDirectories ==
    LET picks == {P \in SUBSET (1..Len(NemaCatalog)) :
                        Cardinality(P) <= MaxScans}
        listing(P) ==
            [i \in 1..Cardinality(P) |-> NemaCatalog[SortedSeq(P)[i]]]
    IN  {listing(P) : P \in picks} \cup {Reverse(listing(P)) : P \in picks}

\* the outcome of create_circular_roi on each pixel array of the catalog
NemaRois ==
    {<<a, Outcome({create_circular_roi(MkImage(a[1][1], a[1][2], a[1][3]),
                                       a[2])})>> :
        a \in {<<<<MaxDim, MaxDim, "big">>, <<20, 20>>>>,
               <<<<16, 16, "spot">>, <<1, 1>>>>}}
NemaRoi(f) == (CHOOSE t \in NemaRois : t[1] = <<f.array, f.spacing>>)[2]

\* compute_metrics(image, use_roi, pixel_spacing) raises: np.min of the empty
\* selection of an ROI that covers no pixel
nema_metrics_raise(f, use_roi) == use_roi /\ NemaRoi(f) # "ok"

ScanRow(scan_id, orientation, type_, f) ==
    [ScanID |-> scan_id, Orientation |-> orientation, Type |-> type_,
     Mean |-> Num(f.Mean), Min |-> Num(f.Min), Max |-> Num(f.Max),
     Sum |-> Num(f.Sum), StDev |-> Num(f.StDev), Filename |-> f.name,
     Slice |-> f.Slice]

NemaStart == [image_data |-> <<>>, noise_data |-> <<>>, raised |-> FALSE]

\* one subfolder of the first loop: image_data[orientation] = row
subfolder_item(acc, item) ==
    LET id == parse_scan_id(item.name)
        dicom_files == SelectSeq(item.files,
                          LAMBDA f : is_dicom_file("nema", f.content).value)
        f == dicom_files[1]
        row == ScanRow(item.name, id[2], id[1], f)
    IN  IF acc.raised \/ ~item.isdir THEN acc
        ELSE IF id[2] = "Unknown" \/ id[1] = "Unknown" THEN acc
        ELSE IF dicom_files = <<>> THEN acc
        ELSE IF ~f.loads THEN acc
        ELSE IF nema_metrics_raise(f, id[1] = "image")
        THEN [acc EXCEPT !.raised = TRUE]
        ELSE IF id[1] = "image"
        THEN [acc EXCEPT !.image_data = DictSet(@, id[2], row)]
        ELSE [acc EXCEPT !.noise_data = DictSet(@, id[2], row)]

\* d.setdefault(k, []).append(row)
SetDefaultAppend(d, k, row) ==
    DictSet(d, k, Append(IF DictHas(d, k) THEN DictGet(d, k) ELSE <<>>, row))

\* one file of the second loop
direct_item(acc, item) ==
    LET id == parse_scan_id(item.name)
        row == ScanRow(item.name, id[2], id[1], item)
    IN  IF acc.raised \/ item.isdir THEN acc
        ELSE IF ~is_dicom_file("nema", item.content).value THEN acc
        ELSE IF id[2] = "Unknown" \/ id[1] = "Unknown" THEN acc
        ELSE IF ~item.loads THEN acc
        ELSE IF nema_metrics_raise(item, id[1] = "image")
        THEN [acc EXCEPT !.raised = TRUE]
        ELSE IF id[1] = "image"
        THEN [acc EXCEPT !.image_data = SetDefaultAppend(@, id[2], row)]
        ELSE [acc EXCEPT !.noise_data = SetDefaultAppend(@, id[2], row)]

RECURSIVE nema_loop(_, _, _)
nema_loop(listing, subfolders, n) ==
    IF n = 0 THEN NemaStart
    ELSE IF subfolders
    THEN subfolder_item(nema_loop(listing, subfolders, n - 1), listing[n])
    ELSE direct_item(nema_loop(listing, subfolders, n - 1), listing[n])

\* image_row["SNR"] = round(snr, 2); image_row["PIU"] = round(piu, 2)
PairedRow(image_row, noise_row) ==
    LET Mean_image == image_row.Mean.x10
        StdDev_noise == noise_row.StDev.x10
        Max_image == image_row.Max.x10
        Min_image == image_row.Min.x10
        snr == IF StdDev_noise # 0
               THEN Round2(NEMA_SNR_MULTIPLIER * Mean_image, 100 * StdDev_noise)
               ELSE 0
        piu == IF (Max_image + Min_image) # 0
               THEN Round2(100 * ((Max_image + Min_image)
                                    - (Max_image - Min_image)),
                           Max_image + Min_image)
               ELSE 0
    IN  [ScanID |-> image_row.ScanID, Orientation |-> image_row.Orientation,
         Type |-> image_row.Type, Mean |-> image_row.Mean,
         Min |-> image_row.Min, Max |-> image_row.Max, Sum |-> image_row.Sum,
         StDev |-> image_row.StDev, Filename |-> image_row.Filename,
         Slice |-> image_row.Slice,
         SNR |-> Hundredths(snr), PIU |-> Hundredths(piu)]

RECURSIVE Concat(_)
Concat(seqs) ==
    IF seqs = <<>> THEN <<>> ELSE Head(seqs) \o Concat(Tail(seqs))

\* the pairing of the direct-file mode: the first row of each orientation
direct_paired_results(image_data, noise_data) ==
    [i \in 1..Len(image_data) |->
        LET orientation == image_data[i][1]
            image_row == image_data[i][2][1]
        IN  IF DictHas(noise_data, orientation)
            THEN PairedRow(image_row, DictGet(noise_data, orientation)[1])
            ELSE image_row]
    \o Concat([i \in 1..Len(noise_data) |-> noise_data[i][2]])

\* the pairing of the subfolder mode
subfolder_paired_results(image_data, noise_data) ==
    [i \in 1..Len(image_data) |->
        LET orientation == image_data[i][1]
            image_row == image_data[i][2]
        IN  IF DictHas(noise_data, orientation)
            THEN PairedRow(image_row, DictGet(noise_data, orientation))
            ELSE image_row]
    \o [i \in 1..Len(noise_data) |-> noise_data[i][2]]

ReturnRows(rows) == [kind |-> "return", rows |-> rows]

\* process_directory(input_directory)
process_directory(listing) ==
    LET found_subfolders == \E i \in 1..Len(listing) : listing[i].isdir
        acc == nema_loop(listing, found_subfolders, Len(listing))
    IN  IF acc.raised THEN Raised("ValueError")
        ELSE IF ~found_subfolders
        THEN ReturnRows(direct_paired_results(acc.image_data, acc.noise_data))
        ELSE ReturnRows(subfolder_paired_results(acc.image_data,
                                                 acc.noise_data))

----------------------------------------------------------------------------
(* torso.py: the files process_torso_folder finds *)

\* what the folder can hold: files, and subfolders with files and a nested
\* folder
TorsoCatalog ==
    << [ScanFile EXCEPT !.name = <<"a", ".", "d", "c", "m">>],
       [ScanFile EXCEPT !.name = <<"b", ".", "d", "c", "m">>],
       [ScanFile EXCEPT !.name = <<"r", "e", "a", "d", "m", "e", ".", "t", "x", "t">>, !.content = TextContent],
       Subfolder(<<"s", "1">>,
                 <<[ScanFile EXCEPT !.name = <<"c", ".", "d", "c", "m">>],
                   [ScanFile EXCEPT !.name = <<"l", "o", "g", ".", "t", "x", "t">>,
                                    !.content = TextContent],
                   Subfolder(<<"d", "e", "e", "p">>, <<[ScanFile EXCEPT !.name = <<"d", ".", "d", "c", "m">>]>>)>>),
       Subfolder(<<"s", "2">>, <<[ScanFile EXCEPT !.name = <<"e", ".", "d", "c", "m">>]>>),
       Subfolder(<<"s", "3">>,
                 <<[ScanFile EXCEPT !.name = <<"x", ".", "t", "x", "t">>,
                                    !.content = TextContent]>>) >>

\* os.listdir(folder), in either directory order
TorsoFolders ==
    LET picks == {P \in SUBSET (1..Len(TorsoCatalog)) :
                        Cardinality(P) <= MaxScans}
        listing(P) ==
            [i \in 1..Cardinality(P) |-> TorsoCatalog[SortedSeq(P)[i]]]
    IN  {listing(P) : P \in picks} \cup {Reverse(listing(P)) : P \in picks}

\* [f for f in os.listdir(d) if os.path.isfile(...) and is_dicom_file(...)]
dicom_files_in(listing) ==
    SelectSeq(listing,
              LAMBDA e : ~e.isdir /\ is_dicom_file("torso", e.content).value)

\* os.path.join(prefix, f) for each f
JoinAll(prefix, listing) ==
    [i \in 1..Len(listing) |-> Append(prefix, listing[i].name)]

discover_files_mutant(folder) ==
    LET subdirs == SelectSeq(folder, LAMBDA e : e.isdir)
    IN  JoinAll(<<>>, dicom_files_in(folder))
        \o Concat([i \in 1..Len(subdirs) |->
                    JoinAll(<<subdirs[i].name>>,
                            dicom_files_in(subdirs[i].files))])

\* the list handed to classify_files; paths are relative to the folder
discover_files(folder) ==
    LET files_ == dicom_files_in(folder)
        subdirs == SelectSeq(folder, LAMBDA e : e.isdir)
    IN  IF files_ = <<>>
        THEN Concat([i \in 1..Len(subdirs) |->
                        JoinAll(<<subdirs[i].name>>,
                                dicom_files_in(subdirs[i].files))])
        ELSE JoinAll(<<>>, files_)

----------------------------------------------------------------------------
(* Direct calls on files and folders, one call a behaviour *)

InitFolder ==
    /\ variant \in Scripts
    /\ pc = "folder"
    /\ files = <<>>
    /\ idx = 0
    /\ combined = <<>>
    /\ individual = <<>>
    /\ combined_results = <<>>
    /\ element_results = <<>>
    /\ call = NoCall
    /\ ret = None

\* is_dicom_file(file_path)
CallIsDicomFile ==
    /\ pc = "folder"
    /\ call = NoCall
    /\ \E c \in FileContents :
          /\ call' = [fn |-> "is_dicom_file", file |-> c]
          /\ ret' = is_dicom_file(variant, c)
    /\ UNCHANGED <<variant, pc, files, idx, combined, individual,
                   combined_results, element_results>>

\* process_directory(input_directory)
CallProcessDirectory ==
    /\ pc = "folder"
    /\ call = NoCall
    /\ variant = "nema"
    /\ \E listing \in NemaDirectories :
          /\ call' = [fn |-> "process_directory", input_directory |-> listing]
          /\ ret' = process_directory(listing)
    /\ UNCHANGED <<variant, pc, files, idx, combined, individual,
                   combined_results, element_results>>

\* process_torso_folder(folder), up to the call of classify_files
CallProcessTorsoFolder ==
    /\ pc = "folder"
    /\ call = NoCall
    /\ variant = "torso"
    /\ \E folder \in TorsoFolders :
          /\ call' = [fn |-> "process_torso_folder", folder |-> folder]
          /\ files' = discover_files(folder)
    /\ pc' = "discovered"
    /\ UNCHANGED <<variant, idx, combined, individual, combined_results,
                   element_results, ret>>

NextFolder ==
    \/ CallIsDicomFile
    \/ CallProcessDirectory
    \/ CallProcessTorsoFolder

SpecFolder == InitFolder /\ [][NextFolder]_vars

----------------------------------------------------------------------------
(* Properties *)

IsSnrCall == call.fn = "compute_snr"
IsUniformityCall == call.fn = "compute_uniformity"

\* C1: in every variant compute_snr returns exactly 0 when noise_std == 0,
\* for every signal_mean, combined or individual; it neither raises nor
\* returns an infinite or NaN value.
C1_SnrZeroWhenNoiseZero ==
    (IsSnrCall /\ call.noise_std = 0) => ret = Num(0)

\* C3: compute_uniformity(max, min) is round(100*(1-(max-min)/(max+min)), 1)
\* when max+min is non-zero and 0 when max+min == 0; it is 100.0 whenever
\* max == min and they are non-zero.
C3_Uniformity ==
    IsUniformityCall =>
        LET mx == call.signal_max
            mn == call.signal_min
        IN  /\ (mx + mn # 0) =>
                    ret = Num(Round1(100 * (mx + mn) - 100 * (mx - mn), mx + mn))
            /\ (mx + mn = 0) => ret = Num(0)
            /\ (mx = mn /\ mx # 0) => ret = Num(1000)

C3_Witness ==
    /\ IsUniformityCall
    /\ variant = "hn"
    /\ call.signal_max = call.signal_min
    /\ call.signal_max # 0
    /\ ret = Num(1000)

\* What the classifier claims speak of, read off a file
Tokens(f) == CoilLabels(CoilString(dcmread(f)))
LowerDesc(f) == StrLower(SeriesDescription(dcmread(f)))
HasOrientation(f) == \E o \in {TRA, SAG, COR} : StrIn(o, LowerDesc(f))
OneRecognised(f) ==
    Len(Tokens(f)) = 1 /\ InSeq(Tokens(f)[1], ELEMENT_LABELS(variant))
Bucketed == DictValues(combined) \cup DictValues(individual)
Entries == SeqRange(combined) \cup SeqRange(individual)
\* the buckets a file yields when classified on its own
AloneTable ==
    [v \in Variants |->
        [p \in DOMAIN FileTable |-> classify_file(v, EmptyBuckets, p)]]
Alone(f) == AloneTable[variant][f]
\* the black-frame pre-filter of backend/head_neck.py drops the file
BlackDropped(f) == variant = "hn" /\ dcmread(f).px /\ dcmread(f).amax = 0

\* C4 (as claimed): for every file given to classify_files: exactly one token
\* that is in ELEMENT_LABELS puts it in the individual bucket; zero or several
\* tokens and an orientation substring put it in the combined bucket; a file
\* matching neither pattern is put in no bucket, and classification goes on.
\* Stated here only of the files whose header is read and that no pre-filter
\* drops, the reading most favourable to the claim.
C4_Original ==
    [][(pc = "classify" /\ idx' = idx + 1) =>
        LET f == files[idx + 1]
            considered == dcmread(f).hdr /\ ~BlackDropped(f)
            isCombined == Len(Tokens(f)) # 1 /\ HasOrientation(f)
        IN  /\ (considered /\ OneRecognised(f)) => f \in DictValues(individual')
            /\ (considered /\ isCombined) => f \in DictValues(combined')
            /\ (considered /\ ~OneRecognised(f) /\ ~isCombined) =>
                    f \notin (DictValues(combined') \cup DictValues(individual'))
            /\ pc' = "classify"]_vars

\* C4 (amended): for every file whose header is read and that the head & neck
\* black-frame pre-filter does not drop: exactly one token that is in
\* ELEMENT_LABELS puts it in the individual bucket; otherwise (zero tokens,
\* several tokens, or one unrecognised token) an orientation substring puts it
\* in the combined bucket; otherwise it is put in no bucket. A file whose
\* header is unreadable or that the pre-filter drops is put in no bucket.
\* Classification goes on in every case.
C4_Classifier ==
    [][(pc = "classify" /\ idx' = idx + 1) =>
        LET f == files[idx + 1]
            considered == dcmread(f).hdr /\ ~BlackDropped(f)
            inInd == f \in DictValues(individual')
            inComb == f \in DictValues(combined')
        IN  /\ (considered /\ OneRecognised(f)) => (inInd /\ ~inComb)
            /\ (considered /\ ~OneRecognised(f) /\ HasOrientation(f)) =>
                    (inComb /\ ~inInd)
            /\ (considered /\ ~OneRecognised(f) /\ ~HasOrientation(f)) =>
                    (~inInd /\ ~inComb)
            /\ ~considered => (~inInd /\ ~inComb)
            /\ pc' = "classify"]_vars

\* a file with one unrecognised token and an orientation sits in combined
C4_Witness ==
    \E f \in DictValues(combined) :
        Len(Tokens(f)) = 1 /\ ~OneRecognised(f) /\ HasOrientation(f)

\* C5 (as claimed): in every variant the kind of a classified file's key is
\* 'noise' iff 'noise' occurs, case-insensitively, in the series description
\* or in the file path; otherwise it is 'image'.
C5_KindNoiseIffDescOrPath ==
    \A e \in Entries :
        LET kind == e[1][2]
            f == e[2]
            noisy == StrIn(NOISE, LowerDesc(f)) \/ StrIn(NOISE, StrLower(f))
        IN  /\ kind \in {"noise", "image"}
            /\ kind = "noise" <=> noisy

\* C6 (as claimed): in every variant the locus of a combined file is the
\* first of [tra, sag, cor] that is a substring of the lowercased series
\* description (tra before sag, sag before cor).
C6_LocusFirstOfTraSagCor ==
    \A e \in SeqRange(combined) :
        LET locus == e[1][1]
            f == e[2]
        IN  /\ locus = FirstIn(<<TRA, SAG, COR>>, LowerDesc(f))
            /\ (StrIn(TRA, LowerDesc(f)) /\ StrIn(SAG, LowerDesc(f))) => locus = TRA
            /\ (StrIn(SAG, LowerDesc(f)) /\ StrIn(COR, LowerDesc(f))
                    /\ ~StrIn(TRA, LowerDesc(f))) => locus = SAG

\* the files consumed so far that classify, on their own, to key k of a bucket
Hits(bucket, k) ==
    {j \in 1..idx : DictHas(Alone(files[j])[bucket], k)}
MaxOf(S) == CHOOSE x \in S : \A y \in S : y <= x
LastWins(bucket, d) ==
    /\ \A i, j \in 1..Len(d) : d[i][1] = d[j][1] => i = j
    /\ \A i \in 1..Len(d) :
            /\ Hits(bucket, d[i][1]) # {}
            /\ d[i][2] = files[MaxOf(Hits(bucket, d[i][1]))]
    /\ \A j \in 1..idx : \A i \in 1..Len(Alone(files[j])[bucket]) :
            DictHas(d, Alone(files[j])[bucket][i][1])

\* C7: after any sequence of files each key of a bucket maps to exactly one
\* path, the last file of the sequence that classified to that key.
C7_LastWins ==
    /\ LastWins("combined", combined)
    /\ LastWins("individual", individual)

\* an earlier file of the same key has been overwritten
C7_Witness ==
    /\ pc = "classified"
    /\ \E i, j \in 1..Len(files) :
        /\ i < j
        /\ Alone(files[i]).combined # <<>>
        /\ Alone(files[j]).combined # <<>>
        /\ Alone(files[i]).combined[1][1] = Alone(files[j]).combined[1][1]
        /\ DictGet(combined, Alone(files[j]).combined[1][1]) = files[j]

HeaderReadable(f) == dcmread(f).hdr

\* C8: a file whose header read raises is skipped and the pass continues:
\* the buckets are those of the input without the failing files, and
\* classify_files returns both buckets.
C8_HeaderErrorSkipped ==
    /\ pc \in {"classify", "classified"}
    /\ [combined |-> combined, individual |-> individual]
         = classify_files(variant,
                          SelectSeq(SubSeq(files, 1, idx), HeaderReadable))

\* a failing file was followed by a file that was still classified
C8_Witness ==
    /\ pc = "classified"
    /\ \E i, j \in 1..Len(files) :
        /\ i < j
        /\ ~HeaderReadable(files[i])
        /\ files[j] \in Bucketed

\* the row of this orientation was computed with an ROI that selects no pixel
CombinedRoiEmpty(ori) ==
    CASE variant = "hn" ->
            \/ Roi(HnNemaStyleRois,
                   dcmread(DictGet(combined, hn_sig_key(ori)))) = "empty"
            \/ Roi(HnCentralCircleRois,
                   dcmread(DictGet(combined, hn_noi_key(ori)))) = "empty"
      [] variant = "torso" ->
            \/ Roi(TorsoCombinedSignalRois,
                   dcmread(DictGet(combined, <<ori, "image">>))) = "empty"
            \/ Roi(TorsoCombinedNoiseRois,
                   dcmread(DictGet(combined, <<ori, "noise">>))) = "empty"
      [] OTHER -> FALSE

\* the row of this element was computed with an ROI that selects no pixel
ElementRoiEmpty(el) ==
    CASE variant = "hn" ->
            \/ Roi(HnElementSignalRois,
                   dcmread(hn_img_path(individual, el))) = "empty"
            \/ Roi(HnElementNoiseRois,
                   dcmread(hn_noise_path(individual, el))) = "empty"
      [] variant = "torso" ->
            \/ Roi(TorsoElementSignalRois,
                   dcmread(DictGet(individual, <<el, "image">>))) = "empty"
            \/ Roi(TorsoElementNoiseRois,
                   dcmread(DictGet(individual, <<el, "noise">>))) = "empty"
      [] OTHER -> FALSE

RowRoiEmpty(row) ==
    IF "Region" \in DOMAIN row THEN CombinedRoiEmpty(StrLower(row["Region"]))
    ELSE ElementRoiEmpty(row["Element"])

\* the multiplier the claim gives each protocol, in hundredths
ClaimedMultiplier(v, is_individual) ==
    IF v = "torso" /\ is_individual THEN 66 ELSE 70

\* signal mean and noise SD that went into a row, in tenths: the row's own
\* fields, or (torso combined rows carry neither) the paired files' statistics
RowMean10(row) ==
    IF "Signal Mean" \in DOMAIN row THEN row["Signal Mean"].x10
    ELSE 10 * dcmread(DictGet(combined,
                              <<StrLower(row["Region"]), "image">>)).smean
RowStd10(row) ==
    IF "Noise SD" \in DOMAIN row THEN row["Noise SD"].x10
    ELSE 10 * dcmread(DictGet(combined,
                              <<StrLower(row["Region"]), "noise">>)).nstd

SnrAsClaimed(row, is_individual) ==
    (~RowRoiEmpty(row) /\ RowStd10(row) > 0) =>
        row["SNR"] = Num(Round1(ClaimedMultiplier(variant, is_individual)
                                    * RowMean10(row), 100 * RowStd10(row)))

\* C2: for every signal_mean and noise_std > 0 (the statistics of ROIs that
\* select pixels) the SNR written into a row is
\* round(multiplier * signal_mean / noise_std, 1), multiplier 0.7 for torso
\* combined rows, 0.66 for torso element rows, 0.7 for both in head_neck;
\* nothing else enters the reported SNR.
C2_RowSnr ==
    /\ \A i \in 1..Len(combined_results) :
            SnrAsClaimed(combined_results[i], FALSE)
    /\ \A i \in 1..Len(element_results) :
            SnrAsClaimed(element_results[i], TRUE)

\* a torso run returned a combined row and an element row with noise SD > 0
C2_Witness ==
    /\ pc = "returned"
    /\ variant = "torso"
    /\ \E i \in 1..Len(combined_results) :
            /\ ~RowRoiEmpty(combined_results[i])
            /\ RowStd10(combined_results[i]) > 0
    /\ \E i \in 1..Len(element_results) :
            /\ ~RowRoiEmpty(element_results[i])
            /\ RowStd10(element_results[i]) > 0

\* C9: a classified file whose pixel data cannot be loaded never aborts the
\* batch: the entry is skipped and the other rows are computed and returned.
C9_UnreadableNeverAborts ==
    (\E f \in Bucketed : ~Loads(f)) => pc # "raised"

\* the classified files of a locus (orientation or element), kind and
\* normalization
FilesOf(bucket, locus, kind, norm) ==
    {f \in SeqRange(files) :
        /\ Len(Alone(f)[bucket]) = 1
        /\ Alone(f)[bucket][1][1][1] = locus
        /\ Alone(f)[bucket][1][1][2] = kind
        /\ IsNorm(dcmread(f)) = norm}

AllFourClassified(bucket, locus) ==
    \A kind \in {"image", "noise"} : \A norm \in BOOLEAN :
        FilesOf(bucket, locus, kind, norm) # {}

FromNormSignalUnnormNoise(bucket, locus, row) ==
    \E fi \in FilesOf(bucket, locus, "image", TRUE) :
    \E fn \in FilesOf(bucket, locus, "noise", FALSE) :
        row["SNR"] = compute_snr(variant, dcmread(fi).smean, dcmread(fn).nstd,
                                 "float", bucket = "individual")

\* C10: in the head & neck protocol, for every orientation and element that
\* has normalized and unnormalized signal and noise images classified, the
\* row's SNR comes from the normalized signal and the unnormalized noise.
C10_NormSignalUnnormNoise ==
    (variant \in {"hn", "desktop"} /\ pc \in {"elements", "returned"}) =>
        /\ \A i \in 1..Len(combined_results) :
            LET row == combined_results[i]
                locus == StrLower(row["Region"])
            IN  AllFourClassified("combined", locus) =>
                    FromNormSignalUnnormNoise("combined", locus, row)
        /\ \A i \in 1..Len(element_results) :
            LET row == element_results[i]
                locus == row["Element"]
            IN  AllFourClassified("individual", locus) =>
                    FromNormSignalUnnormNoise("individual", locus, row)

\* a row was produced for the orientation / for the element
HasCombinedRow(orientation) ==
    \E i \in 1..Len(combined_results) :
        combined_results[i]["Region"] = StrUpper(orientation)
HasElementRow(el) ==
    \E i \in 1..Len(element_results) : element_results[i]["Element"] = el

AnyOf(bucket, locus, kind) ==
    FilesOf(bucket, locus, kind, TRUE) \cup FilesOf(bucket, locus, kind, FALSE)

\* the preferred variant of one side is absent, the other variant is present,
\* and the other side has an image of some variant
OnlyOtherVariant(bucket, locus) ==
    \/ /\ FilesOf(bucket, locus, "image", TRUE) = {}
       /\ FilesOf(bucket, locus, "image", FALSE) # {}
       /\ AnyOf(bucket, locus, "noise") # {}
    \/ /\ FilesOf(bucket, locus, "noise", FALSE) = {}
       /\ FilesOf(bucket, locus, "noise", TRUE) # {}
       /\ AnyOf(bucket, locus, "image") # {}

\* C11 (as claimed): in the head & neck protocol, for every orientation and
\* every element, when the preferred variant is absent but the other variant
\* is present (only an unnormalized signal image, or only a normalized noise
\* image) the pairing falls back to it and a row is still produced.
C11_FallbackToPresentVariant ==
    variant \in {"hn", "desktop"} =>
        /\ pc \in {"elements", "returned"} =>
            \A o \in {SAG, TRA, COR} :
                OnlyOtherVariant("combined", o) => HasCombinedRow(o)
        /\ pc = "returned" =>
            \A i \in 1..Len(ELEMENT_LABELS(variant)) :
                OnlyOtherVariant("individual", ELEMENT_LABELS(variant)[i])
                    => HasElementRow(ELEMENT_LABELS(variant)[i])

\* the classifier output d has an entry of the kind for the locus
HasEntry(d, locus, kind) ==
    \E i \in 1..Len(d) : d[i][1][1] = locus /\ d[i][1][2] = kind
Complete(d, locus) == HasEntry(d, locus, "image") /\ HasEntry(d, locus, "noise")
\* d without the entries of the loci that lack a signal or a noise entry
CompleteOnly(d) ==
    LET Keep(e) == Complete(d, e[1][1])
    IN  SelectSeq(d, Keep)
AllLoad == \A f \in Bucketed : Loads(f)

\* C12 (as claimed): for any classifier output (whose files all load), an
\* orientation or element that lacks a signal entry or lacks a noise entry
\* produces no row; its absence never raises and never changes the rows of the
\* others (the rows are those of the output without the incomplete loci); with
\* signal entries for sag and tra and a noise entry only for sag the combined
\* result is exactly one row, with Region 'SAG'.
C12_MissingPairSkipped ==
    AllLoad =>
        /\ pc # "raised"
        /\ pc \in {"elements", "returned"} =>
            /\ \A i \in 1..Len(combined_results) :
                Complete(combined, StrLower(combined_results[i]["Region"]))
            /\ combined_results = combined_loop(variant, CompleteOnly(combined)).rows
            /\ ( /\ HasEntry(combined, SAG, "image")
                 /\ HasEntry(combined, TRA, "image")
                 /\ HasEntry(combined, SAG, "noise")
                 /\ ~HasEntry(combined, TRA, "noise")
                 /\ ~HasEntry(combined, COR, "noise") )
               => /\ Len(combined_results) = 1
                  /\ combined_results[1]["Region"] = StrUpper(SAG)
        /\ pc = "returned" =>
            /\ \A i \in 1..Len(element_results) :
                Complete(individual, element_results[i]["Element"])
            /\ element_results = element_loop(variant, CompleteOnly(individual)).rows

\* position of x in the list order
Pos(order, x) == CHOOSE k \in 1..Len(order) : order[k] = x
InOrderOf(rows, key, order) ==
    /\ \A i \in 1..Len(rows) : InSeq(rows[i][key], order)
    /\ \A i, j \in 1..Len(rows) :
        i < j => Pos(order, rows[i][key]) < Pos(order, rows[j][key])

\* C13 (as claimed): for every discovery order the combined rows are returned
\* in the fixed orientation order sag, tra, cor and the element rows in the
\* order of ELEMENT_LABELS, in process_torso_folder and process_hn_folder.
C13_FixedRowOrder ==
    /\ InOrderOf(combined_results, "Region",
                 <<StrUpper(SAG), StrUpper(TRA), StrUpper(COR)>>)
    /\ InOrderOf(element_results, "Element", ELEMENT_LABELS(variant))

\* C18 (as claimed): when the folder contains no readable DICOM file,
\* process_torso_folder and process_hn_folder surface an error to the caller
\* instead of returning an empty result.
C18_NoFilesIsAnError ==
    files = <<>> => pc # "returned"

CombinedRowKeys ==
    {"Region", "Signal Max", "Signal Min", "Signal Mean", "Noise SD", "SNR",
     "Uniformity"}
ElementRowKeys == {"Element", "Signal Mean", "Noise SD", "SNR"}

\* C19 (as claimed): every combined row returned by process_torso_folder and
\* process_hn_folder contains all of Region, Signal Max, Signal Min, Signal
\* Mean, Noise SD, SNR and Uniformity, and every element row all of Element,
\* Signal Mean, Noise SD and SNR.
C19_RowKeys ==
    /\ \A i \in 1..Len(combined_results) :
        CombinedRowKeys \subseteq DOMAIN combined_results[i]
    /\ \A i \in 1..Len(element_results) :
        ElementRowKeys \subseteq DOMAIN element_results[i]

IsRoiCall == pc = "roi" /\ call.fn \notin {"none", "detect"}
IsLocatorCall == pc = "roi" /\ call.fn = "detect"
RoiReturned == IsRoiCall /\ ~ret.raised

\* C14 (as claimed): for every image shape, every positive pixel spacing and
\* every placement mode, the mask an ROI builder returns selects at least one
\* pixel of the image.
C14_MaskNotEmpty ==
    RoiReturned => ret.mask # {}

\* C15 (as claimed): in every placement variant and for every image the
\* center used to build the mask satisfies radius+5 <= center_x <=
\* width-(radius+5) and radius+5 <= center_y <= height-(radius+5), and the
\* disc of radius_px around the center lies inside the image.
C15_CenterClamped ==
    (RoiReturned /\ variant \in {"torso", "hn"}) =>
        LET margin == IntOf(ret.r2) + 5
        IN  /\ margin <= ret.cx /\ ret.cx <= call.image.width - margin
            /\ margin <= ret.cy /\ ret.cy <= call.image.height - margin

\* C16 (as claimed): for every image and every positive pixel spacing the
\* radius in pixels used to build an ROI mask is at least 1, in the torso,
\* head_neck and nema_body ROI builders, for signal and noise modes.
C16_RadiusAtLeastOne ==
    (RoiReturned /\ variant \in {"torso", "hn", "nema"}) =>
        ret.r2.n >= ret.r2.d

AllZero(row) ==
    \A k \in DOMAIN row \ {"Region", "Element"} : row[k] = Num(0)

\* some ROI builder call of the torso script raised
BuilderRaised ==
    \/ \E f \in DictValues(combined) :
            Roi(TorsoCombinedSignalRois, dcmread(f)) = "raised"
    \/ \E f \in DictValues(individual) :
            Roi(TorsoElementSignalRois, dcmread(f)) = "raised"

\* C17 (as claimed): when the signal mask or the noise mask of a row selects
\* zero pixels the metrics computation does not raise (a run aborts only on a
\* file that does not load or on an ROI builder that raised), and every value
\* of the row (signal max, min and mean, noise SD, SNR, uniformity) is 0, never
\* NaN, in process_torso_folder and in process_hn_folder.
C17_EmptyMaskGivesZeros ==
    /\ \A i \in 1..Len(combined_results) :
            RowRoiEmpty(combined_results[i]) => AllZero(combined_results[i])
    /\ \A i \in 1..Len(element_results) :
            RowRoiEmpty(element_results[i]) => AllZero(element_results[i])
    /\ pc = "raised" => (~AllLoad \/ (variant = "torso" /\ BuilderRaised))

\* C20 (as claimed): when thresholding and small-object removal leave no
\* connected component, the Phantom Locator does not raise: it returns center
\* (height // 2, width // 2) and radius min(height, width) // 4 and emits a
\* warning, in every variant of the locator.
C20_LocatorFallback ==
    (IsLocatorCall /\ Regions(call.image) = <<>>) =>
        ret = Located(call.image.height \div 2, call.image.width \div 2,
                      Min(call.image.height, call.image.width) \div 4, TRUE)

\* the locator reports the centroid and equivalent-area radius of region r
Reports(r) ==
    /\ ret.cy = RowSum(r) \div RegionArea(r)
    /\ ret.cx = ColSum(r) \div RegionArea(r)
    /\ ret.r = Isqrt((RegionArea(r) * PI_DEN) \div PI_NUM)

\* C21 (as claimed): given the above-threshold connected components of an
\* image, the Phantom Locator discards every component of fewer than 500
\* pixels and returns the truncated centroid and the radius
\* floor(sqrt(area / pi)) of a component of maximum area among the others: it
\* never reports a component smaller than 500 pixels and never passes a larger
\* component over for a smaller one (with no component of 500 pixels it falls
\* back to the image center).
C21_LargestComponent ==
    IsLocatorCall =>
        LET comps == label(Components(call.image))
            kept == {k \in 1..Len(comps) : RegionArea(comps[k]) >= 500}
        IN  IF kept = {}
            THEN ret.cy = call.image.height \div 2
                 /\ ret.cx = call.image.width \div 2
                 /\ ret.r = Min(call.image.height, call.image.width) \div 4
            ELSE \E k \in kept :
                    /\ \A j \in kept :
                            RegionArea(comps[j]) <= RegionArea(comps[k])
                    /\ Reports(comps[k])

\* the call builds the signal ROI of an individual coil element: torso.py and
\* backend/head_neck.py call create_roi_mask in signal mode with
\* find_max_intensity, desktop_app/head_neck.py calls make_combined_noise_roi
\* on the element's image
IsElementSignalCall ==
    /\ IsRoiCall
    /\ \/ /\ variant = "torso" /\ call.fn = "create_roi_mask"
          /\ call.mode = "signal" /\ call.find_max_intensity
          /\ call.is_individual
       \/ /\ variant = "hn" /\ call.fn = "create_roi_mask"
          /\ call.mode = "signal" /\ call.find_max_intensity
       \/ variant = "desktop" /\ call.fn = "make_combined_noise_roi"

\* the center of the returned ROI is (y, x), as it is or clamped
CenterFrom(y, x) ==
    LET margin == IntOf(ret.r2) + 5
    IN  \/ ret.cy = y /\ ret.cx = x
        \/ /\ ret.cy = Clamp(y, margin, call.image.height)
           /\ ret.cx = Clamp(x, margin, call.image.width)

\* C22 (as claimed): for the signal ROI of an individual coil element, when
\* the image has a pixel strictly greater than zero the center chosen before
\* clamping is a pixel of maximum intensity, and otherwise it is the image
\* geometric center, in the torso, backend head_neck and desktop head_neck
\* element pipelines.
C22_ElementSignalCenter ==
    (IsElementSignalCall /\ ~ret.raised) =>
        IF AnyPositive(call.image)
        THEN \E p \in Pixels(call.image) :
                /\ IsBright(call.image, p[1], p[2])
                /\ CenterFrom(p[1], p[2])
        ELSE CenterFrom(call.image.height \div 2, call.image.width \div 2)

\* the call builds a noise ROI: create_roi_mask in noise mode (torso.py,
\* backend/head_neck.py), create_central_circle_roi, make_combined_noise_roi
IsNoiseRoiCall ==
    /\ IsRoiCall
    /\ variant \in {"torso", "hn", "desktop"}
    /\ \/ call.fn = "create_roi_mask" /\ call.mode = "noise"
       \/ call.fn \in {"create_central_circle_roi", "make_combined_noise_roi"}

\* C23 (as claimed): every noise ROI, for combined views and for individual
\* elements, in torso and in head_neck, is centered exactly on the image
\* geometric center (height // 2, width // 2), for every image size and pixel
\* spacing.
C23_NoiseRoiCentered ==
    (IsNoiseRoiCall /\ ~ret.raised) =>
        /\ ret.cy = call.image.height \div 2
        /\ ret.cx = call.image.width \div 2

\* the entries of d that belong to one locus (orientation or element)
OnlyLocus(d, locus) ==
    LET Keep(e) == e[1][1] = locus
    IN  SelectSeq(d, Keep)

\* the loci that have an entry in d
LociOf(d) == {d[i][1][1] : i \in 1..Len(d)}

\* the rows of a result list that carry the given label under the given key
RowsLabelled(rows, key, name) ==
    LET Keep(row) == row[key] = name
    IN  SelectSeq(rows, Keep)

\* what the caller receives: the two lists when the function returns, nothing
\* when it raises
ReturnedCombined == IF pc = "returned" THEN ret.combined ELSE <<>>
ReturnedElements == IF pc = "returned" THEN ret.elements ELSE <<>>

\* the rows received from a run whose classifier output holds the entries of
\* one locus only
CombinedAlone(locus) ==
    LET out == combined_loop(variant, OnlyLocus(combined, locus))
    IN  IF out.raised THEN <<>> ELSE out.rows
ElementAlone(locus) ==
    LET out == element_loop(variant, OnlyLocus(individual, locus))
    IN  IF out.raised THEN <<>> ELSE out.rows

\* C24 (as claimed): no region or element computation depends on another:
\* the row received for an orientation or element (and whether one is
\* received) is the row of a run whose classifier output has the same signal
\* and noise entries for it and nothing else, whatever files, missing pairs
\* or degenerate images the other orientations and elements have.
C24_RowsIndependent ==
    pc \in {"returned", "raised"} =>
        /\ \A locus \in LociOf(combined) :
                RowsLabelled(ReturnedCombined, "Region", StrUpper(locus))
                    = CombinedAlone(locus)
        /\ \A locus \in LociOf(individual) :
                RowsLabelled(ReturnedElements, "Element", locus)
                    = ElementAlone(locus)

\* the key the header of ds gives the file f in backend/head_neck.py
HnHeaderKey(f, ds) ==
    LET sdl == StrLower(SeriesDescription(ds))
        coil_labels == CoilLabels(CoilString(ds))
        orientation == FirstIn(HN_ORIENTATIONS, sdl)
    IN  <<IF hn_is_individual(coil_labels) THEN coil_labels[1] ELSE orientation,
          FileTypeDescOrPath(sdl, f), IsNorm(ds)>>

\* C25: in backend/head_neck.py classify_files, a file whose decoded pixel
\* array has maximum exactly 0 is discarded before classification: it enters
\* neither bucket and overwrites no entry stored earlier under the key it
\* would have had; a file whose pixel data cannot be decoded is not discarded
\* by the pre-filter and is classified from its header.
C25_BlackFrameDiscarded ==
    [][(variant = "hn" /\ pc = "classify" /\ idx < Len(files)) =>
        LET f == files[idx + 1]
            ds == dcmread(f)
            key == HnHeaderKey(f, ds)
            one == hn_is_individual(CoilLabels(CoilString(ds)))
        IN  /\ (ds.hdr /\ ds.px /\ ds.amax = 0) =>
                    /\ combined' = combined
                    /\ individual' = individual
            /\ (ds.hdr /\ ~ds.px) =>
                    /\ one => /\ individual' = DictSet(individual, key, f)
                              /\ combined' = combined
                    /\ (~one /\ key[1] # <<>>) =>
                            /\ combined' = DictSet(combined, key, f)
                            /\ individual' = individual
                    /\ (~one /\ key[1] = <<>>) =>
                            /\ combined' = combined
                            /\ individual' = individual]_vars

\* an undecodable file was classified from its header, and the black frame
\* that came next, with the same key, left the entry alone
C25_Witness ==
    /\ variant = "hn"
    /\ idx = 2
    /\ ~dcmread(files[1]).px /\ dcmread(files[1]).hdr
    /\ dcmread(files[2]).px /\ dcmread(files[2]).amax = 0
    /\ dcmread(files[2]).hdr
    /\ HnHeaderKey(files[2], dcmread(files[2]))
            = HnHeaderKey(files[1], dcmread(files[1]))
    /\ DictHas(combined, HnHeaderKey(files[1], dcmread(files[1])))
    /\ DictGet(combined, HnHeaderKey(files[1], dcmread(files[1]))) = files[1]

\* C26 (as claimed): is_dicom_file accepts a file only if it begins with a
\* 128-byte preamble followed by the four bytes 'DICM' (bytes 128..131); a
\* file shorter than 132 bytes, or whose bytes 128..131 differ from 'DICM',
\* is rejected, and the function never raises, in every variant of
\* is_dicom_file.
C26_DicomMagicRequired ==
    (call.fn = "is_dicom_file") =>
        LET content == Content(call.file)
        IN  /\ ret.kind = "return"
            /\ ret.value =>
                /\ Len(content) >= READ_LEN
                /\ SubSeq(content, READ_LEN - 3, READ_LEN) = DICM

\* process_directory returned its list of rows
DirectoryProcessed == call.fn = "process_directory" /\ ret.kind = "return"

\* the noise row an image row of the returned list is paired with: the first
\* noise row of its orientation
PairedNoiseRow(rows, orientation) ==
    rows[CHOOSE j \in 1..Len(rows) :
            /\ rows[j].Type = "noise" /\ rows[j].Orientation = orientation
            /\ \A k \in 1..(j - 1) :
                ~(rows[k].Type = "noise" /\ rows[k].Orientation = orientation)]

\* C27 (as claimed): in nema_body.process_directory the SNR of an orientation
\* paired from an image scan and a noise scan is computed with the multiplier
\* 0.7: SNR = 0.7 * Mean_image / StdDev_noise when StdDev_noise is non-zero,
\* in the subfolder mode and in the direct-file mode.
C27_NemaMultiplier ==
    DirectoryProcessed =>
        \A i \in 1..Len(ret.rows) :
            LET row == ret.rows[i]
                noise_row == PairedNoiseRow(ret.rows, row.Orientation)
            IN  ("SNR" \in DOMAIN row /\ noise_row.StDev.x10 # 0) =>
                    row.SNR = Hundredths(Round2(70 * row.Mean.x10,
                                                100 * noise_row.StDev.x10))

\* a scan of the given type and orientation was found in the directory: a
\* subfolder (or, without subfolders, a file) with that name whose DICOM file
\* loads
ScanFound(listing, type_, orientation) ==
    LET subfolders == \E i \in 1..Len(listing) : listing[i].isdir
        valid(f) == is_dicom_file("nema", f.content).value
        first(item) == SelectSeq(item.files, valid)[1]
    IN  \E i \in 1..Len(listing) :
            /\ parse_scan_id(listing[i].name) = <<type_, orientation>>
            /\ listing[i].isdir = subfolders
            /\ IF subfolders
               THEN /\ \E k \in 1..Len(listing[i].files) :
                            valid(listing[i].files[k])
                    /\ first(listing[i]).loads
               ELSE valid(listing[i]) /\ listing[i].loads

\* C28 (as claimed): nema_body.process_directory creates an output row only
\* for a successfully paired signal/noise combination: the returned list has
\* exactly one row per orientation for which both an image scan and a noise
\* scan were found, every returned row carries SNR and PIU, and no row is
\* returned for an image scan without noise or for a noise scan.
C28_RowsOnlyForPairs ==
    DirectoryProcessed =>
        LET rows == ret.rows
            listing == call.input_directory
        IN  /\ \A i \in 1..Len(rows) :
                    /\ {"SNR", "PIU"} \subseteq DOMAIN rows[i]
                    /\ rows[i].Type = "image"
                    /\ ScanFound(listing, "noise", rows[i].Orientation)
            /\ \A i, j \in 1..Len(rows) :
                    rows[i].Orientation = rows[j].Orientation => i = j
            /\ \A o \in {"Sagi", "Coronal", "Trans"} :
                    ( /\ ScanFound(listing, "image", o)
                      /\ ScanFound(listing, "noise", o) )
                    => \E i \in 1..Len(rows) : rows[i].Orientation = o

\* process_torso_folder has listed its files
FolderScanned == call.fn = "process_torso_folder"

\* the valid DICOM files directly inside a listing, as paths under prefix
ValidIn(prefix, listing) ==
    {Append(prefix, listing[i].name) :
        i \in {k \in 1..Len(listing) :
                /\ ~listing[k].isdir
                /\ is_dicom_file("torso", listing[k].content).value}}

\* the valid DICOM files directly inside the immediate subfolders
ValidInSubfolders(folder) ==
    UNION {ValidIn(<<folder[i].name>>, folder[i].files) :
            i \in {k \in 1..Len(folder) : folder[k].isdir}}

\* C30: process_torso_folder scans subfolders only when the top-level folder
\* holds no valid DICOM file: with a valid DICOM file at the top level no file
\* of any subfolder is classified; otherwise exactly the valid DICOM files
\* directly inside the immediate subfolders are classified; files nested two
\* or more levels deep are never classified.
C30_SubfoldersOnlyWhenTopEmpty ==
    FolderScanned =>
        /\ IF ValidIn(<<>>, call.folder) # {}
           THEN SeqRange(files) = ValidIn(<<>>, call.folder)
           ELSE SeqRange(files) = ValidInSubfolders(call.folder)
        /\ \A i \in 1..Len(files) : Len(files[i]) <= 2

\* the top level holds a file but no valid DICOM file, and a subfolder holds
\* a valid DICOM file next to a nested folder with one: the subfolder's file
\* is listed
C30_Witness ==
    /\ FolderScanned
    /\ \E i \in 1..Len(call.folder) : ~call.folder[i].isdir
    /\ ValidIn(<<>>, call.folder) = {}
    /\ \E i \in 1..Len(call.folder) :
            /\ call.folder[i].isdir
            /\ \E k \in 1..Len(call.folder[i].files) :
                    call.folder[i].files[k].isdir
            /\ ValidIn(<<call.folder[i].name>>, call.folder[i].files) # {}
    /\ files # <<>>

\* the keys of the two buckets are well formed
KeysWellFormed ==
    /\ \A e \in SeqRange(individual) :
            /\ InSeq(e[1][1], ELEMENT_LABELS(variant))
            /\ e[1][2] \in {"image", "noise"}
    /\ \A e \in SeqRange(combined) :
            /\ e[1][1] \in {TRA, SAG, COR}
            /\ e[1][2] \in {"image", "noise"}

====
